---- MODULE Spec2Model ----
(***************************************************************************)
(* A model of the loxrs tree-walking interpreter: the parser's numbering   *)
(* of variable uses, the Resolver, the Env chain (Weak parent links,       *)
(* reference-counted frames), the runtime objects and the Interpreter,     *)
(* driven by run_string / run_repl.                                        *)
(***************************************************************************)
EXTENDS Integers, Sequences, FiniteSets, TLC

(***************************************************************************)
(* Bounds of the model.                                                    *)
(***************************************************************************)
\* Statements one top-level interpret() may execute before the model calls
\* the run non-terminating (the code has no such limit).
MaxFuel == 24

(***************************************************************************)
(* Runtime values (LoxObj / LoxValue), src/src/runtime/obj.rs.             *)
(***************************************************************************)
Nil == [k |-> "Nil"]
Bool(b) == [k |-> "Bool", b |-> b]
Number(n) == [k |-> "Number", n |-> n]
StringLit(s) == [k |-> "StringLit", s |-> s]
Clock == [k |-> "Clock"]
UserFn(body, params, closure) ==
    [k |-> "UserFn", body |-> body, params |-> params, closure |-> closure]
ClassObj(name, methods) == [k |-> "Class", name |-> name, methods |-> methods]
InstanceObj(i) == [k |-> "Instance", id |-> i]

EmptyMap == [x \in {} |-> Nil]
MapPut(m, n, v) == [x \in (DOMAIN m) \cup {n} |-> IF x = n THEN v ELSE m[x]]

(***************************************************************************)
(* AST nodes as the parser builds them (ast/expr.rs, ast/stmt.rs).  A      *)
(* variable use starts with VarUseId::new(), id 0, until the parser's      *)
(* counter numbers it.                                                     *)
(***************************************************************************)
VarUseIdNew == 0

Lit(v) == [k |-> "Literal", v |-> v]
N(n) == Lit(Number(n))
T == Lit(Bool(TRUE))
F == Lit(Bool(FALSE))
V(name) == [k |-> "Variable", name |-> name, id |-> VarUseIdNew]
Asg(name, e) == [k |-> "Assign", name |-> name, id |-> VarUseIdNew, expr |-> e]
Un(op, e) == [k |-> "Unary", oper |-> op, expr |-> e]
Bin(l, op, r) == [k |-> "Binary", oper |-> op, left |-> l, right |-> r]
Logic(l, op, r) == [k |-> "Logic", oper |-> op, left |-> l, right |-> r]
Call(callee, args) == [k |-> "Call", callee |-> callee, args |-> args]
Get(body, name) == [k |-> "Get", body |-> body, name |-> name]
Set(body, name, value) == [k |-> "Set", body |-> body, name |-> name, value |-> value]
Self == [k |-> "Self_"]

ExprS(e) == [k |-> "Expr", expr |-> e]
PrintS(e) == [k |-> "Print", expr |-> e]
VarS(name, init) == [k |-> "Var", name |-> name, init |-> init]
NoElse == [k |-> "None"]
JustElse(stmts) == [k |-> "JustElse", stmts |-> stmts]
IfArgs(c, then, else) == [condition |-> c, if_true |-> then, if_false |-> else]
ElseIf(if_) == [k |-> "ElseIf", if_ |-> if_]
IfS(c, then, else) == [k |-> "If", if_ |-> IfArgs(c, then, else)]
ReturnS(e) == [k |-> "Return", expr |-> e]
WhileS(c, stmts) == [k |-> "While", condition |-> c, stmts |-> stmts]
BlockS(stmts) == [k |-> "Block", stmts |-> stmts]
FnDeclArgs(name, params, body) == [name |-> name, params |-> params, body |-> body]
FnS(name, params, body) == [k |-> "Fn", f |-> FnDeclArgs(name, params, body)]
ClassS(name, methods) == [k |-> "Class", name |-> name, methods |-> methods]

(***************************************************************************)
(* Parser: the numbering of variable uses.  Every Expr::Variable takes     *)
(* counter.next() when expr_prim builds it; an assignment's target is      *)
(* first parsed as a Variable (taking an id that is dropped), then the     *)
(* right-hand side is parsed, then Expr::assign takes the next id.         *)
(***************************************************************************)
\* VarUseIdCounter::new
VarUseIdCounterNew == 0

\* VarUseIdCounter::next: returns the old value, increments the counter
CounterNext(c) == [id |-> c, c |-> c + 1]

RECURSIVE ParseExpr(_, _)
RECURSIVE ParseArgs(_, _)
RECURSIVE ParseStmt(_, _)
RECURSIVE ParseBlock(_, _)
RECURSIVE ParseIf(_, _)
RECURSIVE ParseMethods(_, _)

ParseExpr(e, c) ==
    CASE e.k = "Variable" ->
            LET n == CounterNext(c)
            IN  [e |-> [e EXCEPT !.id = n.id], c |-> n.c]
      [] e.k = "Assign" ->
            LET lhs == CounterNext(c)
                rhs == ParseExpr(e.expr, lhs.c)
                n   == CounterNext(rhs.c)
            IN  [e |-> [e EXCEPT !.id = n.id, !.expr = rhs.e], c |-> n.c]
      [] e.k = "Unary" ->
            LET r == ParseExpr(e.expr, c)
            IN  [e |-> [e EXCEPT !.expr = r.e], c |-> r.c]
      [] e.k \in {"Binary", "Logic"} ->
            LET l == ParseExpr(e.left, c)
                r == ParseExpr(e.right, l.c)
            IN  [e |-> [e EXCEPT !.left = l.e, !.right = r.e], c |-> r.c]
      [] e.k = "Call" ->
            LET f == ParseExpr(e.callee, c)
                a == ParseArgs(e.args, f.c)
            IN  [e |-> [e EXCEPT !.callee = f.e, !.args = a.es], c |-> a.c]
      [] e.k = "Get" ->
            LET b == ParseExpr(e.body, c)
            IN  [e |-> [e EXCEPT !.body = b.e], c |-> b.c]
      [] e.k = "Set" ->
            LET b == ParseExpr(e.body, c)
                v == ParseExpr(e.value, b.c)
            IN  [e |-> [e EXCEPT !.body = b.e, !.value = v.e], c |-> v.c]
      [] OTHER -> [e |-> e, c |-> c]

ParseArgs(es, c) ==
    IF es = <<>> THEN [es |-> <<>>, c |-> c]
    ELSE LET h == ParseExpr(Head(es), c)
             t == ParseArgs(Tail(es), h.c)
         IN  [es |-> <<h.e>> \o t.es, c |-> t.c]

ParseIf(if_, c) ==
    LET cond == ParseExpr(if_.condition, c)
        then == ParseBlock(if_.if_true, cond.c)
    IN  CASE if_.if_false.k = "None" ->
                [if_ |-> [if_ EXCEPT !.condition = cond.e, !.if_true = then.ss],
                 c |-> then.c]
          [] if_.if_false.k = "ElseIf" ->
                LET r == ParseIf(if_.if_false.if_, then.c)
                IN  [if_ |-> [if_ EXCEPT !.condition = cond.e, !.if_true = then.ss,
                                         !.if_false = ElseIf(r.if_)],
                     c |-> r.c]
          [] if_.if_false.k = "JustElse" ->
                LET r == ParseBlock(if_.if_false.stmts, then.c)
                IN  [if_ |-> [if_ EXCEPT !.condition = cond.e, !.if_true = then.ss,
                                         !.if_false = JustElse(r.ss)],
                     c |-> r.c]

ParseMethods(ms, c) ==
    IF ms = <<>> THEN [ms |-> <<>>, c |-> c]
    ELSE LET b == ParseBlock(Head(ms).body, c)
             t == ParseMethods(Tail(ms), b.c)
         IN  [ms |-> <<[Head(ms) EXCEPT !.body = b.ss]>> \o t.ms, c |-> t.c]

ParseStmt(s, c) ==
    CASE s.k \in {"Expr", "Print", "Return"} ->
            LET r == ParseExpr(s.expr, c)
            IN  [s |-> [s EXCEPT !.expr = r.e], c |-> r.c]
      [] s.k = "Var" ->
            LET r == ParseExpr(s.init, c)
            IN  [s |-> [s EXCEPT !.init = r.e], c |-> r.c]
      [] s.k = "If" ->
            LET r == ParseIf(s.if_, c)
            IN  [s |-> [s EXCEPT !.if_ = r.if_], c |-> r.c]
      [] s.k = "While" ->
            LET cond == ParseExpr(s.condition, c)
                b    == ParseBlock(s.stmts, cond.c)
            IN  [s |-> [s EXCEPT !.condition = cond.e, !.stmts = b.ss], c |-> b.c]
      [] s.k = "Block" ->
            LET b == ParseBlock(s.stmts, c)
            IN  [s |-> [s EXCEPT !.stmts = b.ss], c |-> b.c]
      [] s.k = "Fn" ->
            LET b == ParseBlock(s.f.body, c)
            IN  [s |-> [s EXCEPT !.f.body = b.ss], c |-> b.c]
      [] s.k = "Class" ->
            LET m == ParseMethods(s.methods, c)
            IN  [s |-> [s EXCEPT !.methods = m.ms], c |-> m.c]

ParseBlock(ss, c) ==
    IF ss = <<>> THEN [ss |-> <<>>, c |-> c]
    ELSE LET h == ParseStmt(Head(ss), c)
             t == ParseBlock(Tail(ss), h.c)
         IN  [ss |-> <<h.s>> \o t.ss, c |-> t.c]

\* Parser::new(tokens).parse(): a fresh counter for every parse
ParserNewCounter == VarUseIdCounterNew
Parse(source) == ParseBlock(source, ParserNewCounter).ss

(***************************************************************************)
(* Resolver (analizer/resolver.rs).  A Resolver value is the record        *)
(*   scopes, current_fn_type, current_class_type, caches                   *)
(* plus `result`, the Result<()> of the call that produced it, and         *)
(* `trace`, a history of the variable uses it visited (name, id, depth of  *)
(* the scope stack, state of the name in the innermost scope), and         *)
(* `decls`, a history of its calls of declare.                             *)
(***************************************************************************)
OkRes == [k |-> "Ok"]
SemanticError(kind, name) == [k |-> kind, name |-> name]

\* Resolver::new
ResolverNew(caches) ==
    [scopes |-> <<>>, current_fn_type |-> "None", current_class_type |-> "None",
     caches |-> caches, result |-> OkRes, trace |-> <<>>, decls |-> <<>>]

IsErr(rs) == rs.result # OkRes

\* The key of the distance map: VarUseData derives Hash and Eq over (name, id)
VarUseData(name, id) == <<name, id>>

\* scopes.iter().rev().enumerate().find(|(d, s)| s.contains_key(name)):
\* the innermost scope that holds the name, counted from the innermost (0)
FindScope(scopes, name) ==
    LET hits == {d \in 0..(Len(scopes) - 1) : name \in DOMAIN scopes[Len(scopes) - d]}
    IN  IF hits = {} THEN -1 ELSE CHOOSE d \in hits : \A x \in hits : d <= x

\* A resolve_local_var that adds one to the distance of a use the map already holds
ResolveLocalVarShifting(rs, name, id) ==
    LET d == FindScope(rs.scopes, name)
    IN  IF d < 0 THEN rs
        ELSE IF VarUseData(name, id) \in DOMAIN rs.caches
             THEN [rs EXCEPT !.caches = MapPut(@, VarUseData(name, id), d + 1)]
             ELSE [rs EXCEPT !.caches = MapPut(@, VarUseData(name, id), d)]

\* Resolver::resolve_local_var
ResolveLocalVar(rs, name, id) ==
    LET d == FindScope(rs.scopes, name)
    IN  IF d >= 0 THEN [rs EXCEPT !.caches = MapPut(@, VarUseData(name, id), d)]
        ELSE rs

\* Resolver::begin_scope
BeginScope(rs) == [rs EXCEPT !.scopes = Append(@, EmptyMap)]

\* Resolver::end_scope
EndScope(rs) == [rs EXCEPT !.scopes = SubSeq(@, 1, Len(@) - 1)]

\* A declare that looks for the name in every scope of the stack
DeclareInAnyScope(rs, name) ==
    IF Len(rs.scopes) = 0 THEN [rs EXCEPT !.result = OkRes]
    ELSE IF \E i \in 1..Len(rs.scopes) : name \in DOMAIN rs.scopes[i]
         THEN [rs EXCEPT !.result = SemanticError("DuplicateDeclaration", name)]
         ELSE [rs EXCEPT !.scopes[Len(rs.scopes)] = MapPut(@, name, FALSE),
                         !.result = OkRes]

\* Resolver::declare
Declare(rs, name) ==
    IF Len(rs.scopes) = 0 THEN [rs EXCEPT !.result = OkRes]
    ELSE IF name \in DOMAIN rs.scopes[Len(rs.scopes)]
         THEN [rs EXCEPT !.result = SemanticError("DuplicateDeclaration", name)]
         ELSE [rs EXCEPT !.scopes[Len(rs.scopes)] = MapPut(@, name, FALSE),
                         !.result = OkRes]

\* Resolver::define
Define(rs, name) ==
    IF Len(rs.scopes) = 0 THEN rs
    ELSE [rs EXCEPT !.scopes[Len(rs.scopes)] = MapPut(@, name, TRUE)]

\* The state of a name in the innermost scope, for the trace
InnerState(rs, name) ==
    IF Len(rs.scopes) = 0 THEN "absent"
    ELSE IF name \notin DOMAIN rs.scopes[Len(rs.scopes)] THEN "absent"
    ELSE IF rs.scopes[Len(rs.scopes)][name] THEN "init" ELSE "uninit"

\* declare(name) took the Resolver from rs to r, kept in the history: the depth
\* of the scope stack, whether the innermost and whether an enclosing scope
\* held the name, and the Result
Declared(rs, name, r) ==
    [r EXCEPT !.decls = Append(@, [name |-> name, depth |-> Len(rs.scopes),
                                   inner |-> InnerState(rs, name) # "absent",
                                   outer |-> \E i \in 1..(Len(rs.scopes) - 1) :
                                                 name \in DOMAIN rs.scopes[i],
                                   result |-> r.result])]

Traced(rs, t, name, id) ==
    [rs EXCEPT !.trace = Append(@, [t |-> t, name |-> name, id |-> id,
                                    depth |-> Len(rs.scopes),
                                    inner |-> InnerState(rs, name)])]

\* Resolver::resolve_fn_before: returns the enclosing function kind in `enclosing`
ResolveFnBefore(rs, fn_type) ==
    BeginScope([rs EXCEPT !.current_fn_type = fn_type])

\* A resolve_fn_after that leaves current_fn_type as the function set it
ResolveFnAfterKeepsKind(rs, enclosing) == EndScope(rs)

\* Resolver::resolve_fn_after
ResolveFnAfter(rs, enclosing) ==
    [EndScope(rs) EXCEPT !.current_fn_type = enclosing]

\* visit_return_stmt's test: is a `return` illegal here
ReturnIllegal(rs) == rs.current_fn_type = "None"

\* A visit_class_decl that leaves current_class_type as the class set it
KeepClassKind(rs, enclosing) == rs

\* the end of visit_class_decl: self.current_class_type = enclosing
RestoreClassKind(rs, enclosing) == [rs EXCEPT !.current_class_type = enclosing]

\* visit_self_expr's test: is the receiver illegal here
SelfIllegal(rs) == rs.current_class_type # "Class"

\* A resolver that lets every read of a declared name through
NeverReadsOwnInitializer(rs, name) == FALSE

\* visit_var_expr's test: reading a name whose entry in the innermost scope is false
ReadsOwnInitializer(rs, name) ==
    Len(rs.scopes) > 0 /\ name \in DOMAIN rs.scopes[Len(rs.scopes)]
                       /\ rs.scopes[Len(rs.scopes)][name] = FALSE

RECURSIVE ResolveExpr(_, _)
RECURSIVE ResolveExprs(_, _)
RECURSIVE ResolveStmt(_, _)
RECURSIVE ResolveStmts(_, _)
RECURSIVE ResolveIf(_, _)
RECURSIVE ResolveParams(_, _)
RECURSIVE ResolveMethods(_, _)

\* ExprVisitor for Resolver
ResolveExpr(e, rs) ==
    CASE e.k = "Variable" ->
            LET r0 == Traced(rs, "read", e.name, e.id)
            IN  IF ReadsOwnInitializer(r0, e.name)
                THEN [r0 EXCEPT !.result =
                          SemanticError("RecursiveVariableDeclaration", e.name)]
                ELSE [ResolveLocalVar(r0, e.name, e.id) EXCEPT !.result = OkRes]
      [] e.k = "Assign" ->
            LET r1 == ResolveExpr(e.expr, rs)
            IN  IF IsErr(r1) THEN r1
                ELSE ResolveLocalVar(Traced(r1, "assign", e.name, e.id), e.name, e.id)
      [] e.k \in {"Binary", "Logic"} ->
            LET r1 == ResolveExpr(e.left, rs)
            IN  IF IsErr(r1) THEN r1 ELSE ResolveExpr(e.right, r1)
      [] e.k = "Call" ->
            LET r1 == ResolveExpr(e.callee, rs)
            IN  IF IsErr(r1) THEN r1 ELSE ResolveExprs(e.args, r1)
      [] e.k = "Unary" -> ResolveExpr(e.expr, rs)
      [] e.k = "Literal" -> [rs EXCEPT !.result = OkRes]
      [] e.k = "Get" -> ResolveExpr(e.body, rs)
      [] e.k = "Set" ->
            LET r1 == ResolveExpr(e.body, rs)
            IN  IF IsErr(r1) THEN r1 ELSE ResolveExpr(e.value, r1)
      [] e.k = "Self_" ->
            LET r0 == Traced(rs, "self", "@", -1)
            IN  IF SelfIllegal(r0)
                THEN [r0 EXCEPT !.result = SemanticError("UseOfSelfOutsideMethod", "@")]
                ELSE [r0 EXCEPT !.result = OkRes]

\* for arg in call.args.iter() { self.resolve_expr(arg)?; }
ResolveExprs(es, rs) ==
    IF es = <<>> THEN [rs EXCEPT !.result = OkRes]
    ELSE LET r1 == ResolveExpr(Head(es), rs)
         IN  IF IsErr(r1) THEN r1 ELSE ResolveExprs(Tail(es), r1)

\* Resolver::resolve_stmts
ResolveStmts(ss, rs) ==
    IF ss = <<>> THEN [rs EXCEPT !.result = OkRes]
    ELSE LET r1 == ResolveStmt(Head(ss), rs)
         IN  IF IsErr(r1) THEN r1 ELSE ResolveStmts(Tail(ss), r1)

\* Resolver::resolve_block
ResolveBlock(ss, rs) == EndScope(ResolveStmts(ss, BeginScope(rs)))

\* the parameter loop of Resolver::impl_resolve_fn
ResolveParams(ps, rs) ==
    IF ps = <<>> THEN [rs EXCEPT !.result = OkRes]
    ELSE LET r1 == Declared(rs, Head(ps), Declare(rs, Head(ps)))
         IN  IF IsErr(r1) THEN r1 ELSE ResolveParams(Tail(ps), Define(r1, Head(ps)))

\* Resolver::impl_resolve_fn
ImplResolveFn(f, rs) ==
    LET r1 == ResolveParams(f.params, rs)
    IN  IF IsErr(r1) THEN r1 ELSE ResolveStmts(f.body, r1)

\* Resolver::resolve_pure_fn
ResolvePureFn(f, fn_type, rs) ==
    ResolveFnAfter(ImplResolveFn(f, ResolveFnBefore(rs, fn_type)), rs.current_fn_type)

\* Resolver::visit_if_stmt
ResolveIf(if_, rs) ==
    LET r1 == ResolveExpr(if_.condition, rs)
        r2 == ResolveStmts(if_.if_true, r1)
    IN  IF IsErr(r1) THEN r1
        ELSE IF IsErr(r2) THEN r2
        ELSE CASE if_.if_false.k = "ElseIf" -> ResolveIf(if_.if_false.if_, r2)
               [] if_.if_false.k = "JustElse" -> ResolveBlock(if_.if_false.stmts, r2)
               [] OTHER -> [r2 EXCEPT !.result = OkRes]

\* the method loop of Resolver::visit_class_decl: an error returns at once,
\* after resolve_fn_after and before current_class_type is restored
ResolveMethods(ms, rs) ==
    IF ms = <<>> THEN [rs EXCEPT !.result = OkRes]
    ELSE LET r0 == ResolveFnBefore(rs, "Method")
             r1 == [r0 EXCEPT !.scopes[Len(r0.scopes)] = MapPut(@, "@", TRUE)]
             r2 == ResolveFnAfter(ImplResolveFn(Head(ms), r1), rs.current_fn_type)
         IN  IF IsErr(r2) THEN r2 ELSE ResolveMethods(Tail(ms), r2)

\* StmtVisitor for Resolver
ResolveStmt(s, rs) ==
    CASE s.k = "Var" ->
            LET r1 == Declared(rs, s.name, Declare(rs, s.name))
                r2 == ResolveExpr(s.init, r1)
            IN  IF IsErr(r1) THEN r1
                ELSE IF IsErr(r2) THEN r2
                ELSE Define(r2, s.name)
      [] s.k = "Fn" ->
            LET r1 == Declared(rs, s.f.name, Declare(rs, s.f.name))
            IN  IF IsErr(r1) THEN r1
                ELSE ResolvePureFn(s.f, "Fn", Define(r1, s.f.name))
      [] s.k \in {"Expr", "Print"} -> ResolveExpr(s.expr, rs)
      [] s.k = "If" -> ResolveIf(s.if_, rs)
      [] s.k = "Return" ->
            IF ReturnIllegal(rs)
            THEN [rs EXCEPT !.result = SemanticError("ReturnFromNonFunction", "")]
            ELSE ResolveExpr(s.expr, rs)
      [] s.k = "While" ->
            LET r1 == ResolveExpr(s.condition, rs)
            IN  IF IsErr(r1) THEN r1 ELSE ResolveBlock(s.stmts, r1)
      [] s.k = "Block" -> ResolveBlock(s.stmts, rs)
      [] s.k = "Class" ->
            LET r0 == [rs EXCEPT !.current_class_type = "Class"]
                r1 == Declared(r0, s.name, Declare(r0, s.name))
                r2 == ResolveMethods(s.methods, Define(r1, s.name))
            IN  IF IsErr(r1) THEN r1
                ELSE IF IsErr(r2) THEN r2
                ELSE RestoreClassKind(r2, rs.current_class_type)


(***************************************************************************)
(* Interpreter state.  One record holds the Interpreter's fields (globals, *)
(* env, caches), the heap the Rc's point into (envs, insts: an Rc is an    *)
(* index), and the outcome of the call in progress:                        *)
(*   result  Ok or the RuntimeError being propagated by `?`                *)
(*   panic   an unwrap() on None has aborted the process                   *)
(*   hung    the run exceeded MaxFuel statements                           *)
(*   v       the LoxObj an expression evaluated to                         *)
(*   ret     the Option<LoxObj> a statement returned                       *)
(*   held    the Rc's and values the host call stack holds (prev frames,   *)
(*           callees, operands), which keep frames alive                   *)
(*   out     the lines printed; log: a history of what the evaluator did   *)
(***************************************************************************)
OkRun == [k |-> "Ok"]
RuntimeError(kind, name) == [k |-> kind, name |-> name]
NoRet == [k |-> "None"]
Some(v) == [k |-> "Some", v |-> v]

\* Env::new / Env::from_parent: parent 0 is Weak::new()
EnvRec(parent) == [map |-> EmptyMap, parent |-> parent]

GlobalsId == 1

\* Interpreter::global_env
GlobalEnv == [map |-> MapPut(EmptyMap, "clock", Clock), parent |-> 0]

\* Interpreter::new
InterpreterNew ==
    [envs |-> <<GlobalEnv>>, insts |-> <<>>, globals |-> GlobalsId, env |-> GlobalsId,
     caches |-> EmptyMap, result |-> OkRun, panic |-> FALSE, hung |-> FALSE,
     v |-> Nil, ret |-> NoRet, held |-> <<>>, out |-> <<>>, log |-> <<>>,
     fuel |-> MaxFuel, act |-> 0, nact |-> 0, inWhile |-> 0, line |-> 0]

Abnormal(s) == s.result # OkRun \/ s.panic \/ s.hung
Fail(s, kind, name) == [s EXCEPT !.result = RuntimeError(kind, name)]
Panic(s) == [s EXCEPT !.panic = TRUE]
Logged(s, ev) == [s EXCEPT !.log = Append(@, ev)]
Hold(s, x) == [s EXCEPT !.held = Append(@, x)]
Unhold(s) == [s EXCEPT !.held = SubSeq(@, 1, Len(@) - 1)]
HeldEnv(e) == [k |-> "Env", id |-> e]

(***************************************************************************)
(* Reference counting.  Strong references: a function holds its closure    *)
(* (Rc), a class holds its methods, an instance holds its class and its    *)
(* fields, a frame holds the values of its map.  The parent link of a      *)
(* frame is Weak and holds nothing.  A frame or instance is dropped when   *)
(* nothing live holds it; members of a cycle of strong references are      *)
(* never dropped.                                                          *)
(***************************************************************************)
EnvRef(e) == <<"env", e>>
InstRef(i) == <<"inst", i>>

ValRefs(v) ==
    CASE v.k = "UserFn" -> {EnvRef(v.closure)}
      [] v.k = "Class" -> {EnvRef(v.methods[m].closure) : m \in DOMAIN v.methods}
      [] v.k = "Instance" -> {InstRef(v.id)}
      [] v.k = "Env" -> {EnvRef(v.id)}
      [] v.k = "Some" -> IF v.v.k = "UserFn" THEN {EnvRef(v.v.closure)}
                         ELSE IF v.v.k = "Instance" THEN {InstRef(v.v.id)}
                         ELSE IF v.v.k = "Class"
                         THEN {EnvRef(v.v.methods[m].closure) : m \in DOMAIN v.v.methods}
                         ELSE {}
      [] OTHER -> {}

MapRefs(m) == UNION {ValRefs(m[n]) : n \in DOMAIN m}

Objects(s) == {EnvRef(e) : e \in 1..Len(s.envs)} \cup {InstRef(i) : i \in 1..Len(s.insts)}

ObjRefs(s, o) ==
    IF o[1] = "env" THEN MapRefs(s.envs[o[2]].map)
    ELSE MapRefs(s.insts[o[2]].fields) \cup ValRefs(s.insts[o[2]].class)

RootRefs(s) ==
    {EnvRef(s.globals), EnvRef(s.env)} \cup ValRefs(s.v) \cup ValRefs(s.ret)
        \cup UNION {ValRefs(s.held[i]) : i \in 1..Len(s.held)}

RECURSIVE DroppedFix(_, _, _)
DroppedFix(s, roots, D) ==
    LET D2 == {o \in Objects(s) :
                  o \notin roots /\ \A p \in Objects(s) : o \in ObjRefs(s, p) => p \in D}
    IN  IF D2 = D THEN D ELSE DroppedFix(s, roots, D2)

\* The frames and instances whose strong count has reached zero
Dropped(s) == DroppedFix(s, RootRefs(s), {})

Live(s, e) == EnvRef(e) \notin Dropped(s)

\* Weak::upgrade on a parent link: 0 is None
Upgrade(s, e) == IF e # 0 /\ Live(s, e) THEN e ELSE 0

(***************************************************************************)
(* Env (runtime/env.rs).                                                   *)
(***************************************************************************)
\* Rc::new(RefCell::new(Env::from_parent(parent))): the new frame is the last
NewEnv(s, parent) == [s EXCEPT !.envs = Append(@, EnvRec(parent))]
LastEnv(s) == Len(s.envs)

\* Env::contains
EnvContains(s, e, name) == name \in DOMAIN s.envs[e].map

\* Env::get: this frame, then the parent chain while it can be upgraded
RECURSIVE EnvGet(_, _, _)
EnvGet(s, e, name) ==
    IF name \in DOMAIN s.envs[e].map THEN [ok |-> TRUE, v |-> s.envs[e].map[name], frame |-> e]
    ELSE LET p == Upgrade(s, s.envs[e].parent)
         IN  IF p # 0 THEN EnvGet(s, p, name) ELSE [ok |-> FALSE, v |-> Nil, frame |-> 0]

\* Env::define
EnvDefine(s, e, name, obj) ==
    IF name \in DOMAIN s.envs[e].map THEN Fail(s, "DuplicateDeclaration", name)
    ELSE [s EXCEPT !.envs[e].map = MapPut(@, name, obj)]

\* The frame Env::assign writes: the nearest frame on the upgradable chain
\* that binds the name (0: none)
RECURSIVE AssignFrame(_, _, _)
AssignFrame(s, e, name) ==
    IF name \in DOMAIN s.envs[e].map THEN e
    ELSE LET p == Upgrade(s, s.envs[e].parent)
         IN  IF p # 0 THEN AssignFrame(s, p, name) ELSE 0

\* Env::assign
EnvAssign(s, e, name, obj) ==
    LET f == AssignFrame(s, e, name)
    IN  IF f = 0 THEN Fail(s, "Undefined", name)
        ELSE [s EXCEPT !.envs[f].map = MapPut(@, name, obj)]

\* The closure of Env::ancestor's scan, |env, _| Some(env.borrow().parent...):
\* it never writes *env, so the scan state stays what it was
ScanState(state, item) == state

\* (0..d).scan(init, closure).last(): 0 is None, -1 a panic of the closure's unwrap
RECURSIVE ScanLast(_, _, _, _)
ScanLast(s, state, n, last) ==
    IF n = 0 THEN last
    ELSE LET item == Upgrade(s, s.envs[state].parent)
         IN  IF item = 0 THEN -1
             ELSE ScanLast(s, ScanState(state, item), n - 1, item)

\* Env::ancestor: the frame at distance d, or -1 when one of its unwraps panics.
\* The scan's initial state self.parent.upgrade().unwrap() is built first.
Ancestor(s, e, d) ==
    LET init == Upgrade(s, s.envs[e].parent)
    IN  IF init = 0 THEN -1
        ELSE LET last == ScanLast(s, init, d, 0)
             IN  IF last <= 0 THEN -1 ELSE last

\* The frames of the parent chain of e, e first (the links as stored, whether or
\* not the frames are still alive)
RECURSIVE Chain(_, _)
Chain(s, e) == IF e = 0 THEN <<>> ELSE <<e>> \o Chain(s, s.envs[e].parent)

\* Env::get_resolved
GetResolved(s, e, name, d) ==
    LET a  == Ancestor(s, e, d)
        ch == Chain(s, e)
        ev == [t |-> "get_resolved", env |-> e, name |-> name, d |-> d, frame |-> a,
               chain |-> ch,
               alive |-> \A i \in 2..Len(ch) : i <= d + 1 => Live(s, ch[i]),
               bound |-> IF d + 1 <= Len(ch) THEN name \in DOMAIN s.envs[ch[d + 1]].map
                         ELSE FALSE]
    IN  IF a = -1 THEN Panic(Logged(s, ev))
        ELSE IF name \in DOMAIN s.envs[a].map
             THEN [Logged(s, ev) EXCEPT !.v = s.envs[a].map[name]]
             ELSE Fail(Logged(s, ev), "Undefined", name)

\* Number of non-global frames on the chain of e
ChainDepth(s, e) == Cardinality({i \in 1..Len(Chain(s, e)) : Chain(s, e)[i] # s.globals})


(***************************************************************************)
(* Runtime object model (runtime/obj.rs).                                  *)
(***************************************************************************)
\* LoxValue::from_lit
FromLit(lit) == lit

IsValue(obj) == obj.k \in {"Nil", "Bool", "StringLit", "Number"}

\* LoxObj::is_truthy
IsTruthy(obj) ==
    IF ~IsValue(obj) THEN FALSE
    ELSE obj.k = "Nil" \/ (obj.k = "Bool" /\ obj.b)

\* A use of is_truthy by `by` on the value just evaluated, kept in the history
Tested(s, by) ==
    Logged(s, [t |-> "truthy", by |-> by, v |-> s.v, truthy |-> IsTruthy(s.v)])

\* logic::obj_eq: Some(bool) or None
ObjEq(l, r) ==
    CASE l.k = "Number" /\ r.k = "Number" -> Some(l.n = r.n)
      [] l.k = "Bool" /\ r.k = "Bool" -> Some(l.b = r.b)
      [] l.k = "StringLit" /\ r.k = "StringLit" -> Some(l.s = r.s)
      [] OTHER -> NoRet

\* logic::obj_cmp: Some(Ordering) or None
ObjCmp(l, r) ==
    IF l.k = "Number" /\ r.k = "Number"
    THEN Some(IF l.n < r.n THEN "Less" ELSE IF l.n = r.n THEN "Equal" ELSE "Greater")
    ELSE NoRet

\* logic::obj_plus / obj_minus / obj_div / obj_mul (numbers are integers in
\* the model; division is exact where the model uses it)
ObjArith(oper, l, r) ==
    CASE l.k = "Number" /\ r.k = "Number" ->
            Some(Number(CASE oper = "Plus" -> l.n + r.n
                          [] oper = "Minus" -> l.n - r.n
                          [] oper = "Mul" -> l.n * r.n
                          [] oper = "Div" -> IF r.n = 0 THEN 0 ELSE l.n \div r.n))
      [] oper = "Plus" /\ l.k = "StringLit" /\ r.k = "StringLit" ->
            Some(StringLit(l.s \o r.s))
      [] OTHER -> NoRet

\* The value of visit_binary_expr for two LoxValue operands: Some(obj), or None
\* for MismatchedType
BinaryValue(oper, l, r) ==
    CASE oper \in {"Equal", "NotEqual"} ->
            LET cp == ObjEq(l, r)
            IN  IF cp = NoRet THEN NoRet ELSE Some(Bool(cp.v))
      [] oper \in {"Less", "LessEqual", "Greater", "GreaterEqual"} ->
            LET ord == ObjCmp(l, r)
            IN  IF ord = NoRet THEN NoRet
                ELSE Some(Bool(CASE oper = "Less" -> ord.v = "Less"
                                 [] oper = "LessEqual" -> ord.v # "Greater"
                                 [] oper = "Greater" -> ord.v = "Greater"
                                 [] oper = "GreaterEqual" -> ord.v # "Less"))
      [] OTHER -> ObjArith(oper, l, r)

\* PrettyPrint for LoxObj, the text `print` writes
PrettyPrint(obj) ==
    CASE obj.k = "Nil" -> "Nil"
      [] obj.k = "Bool" -> IF obj.b THEN "true" ELSE "false"
      [] obj.k = "StringLit" -> "\"" \o obj.s \o "\""
      [] obj.k = "Number" -> ToString(obj.n)
      [] obj.k = "Clock" -> "(fn clock)"
      [] obj.k = "UserFn" -> "(fn)"
      [] obj.k = "Class" -> "(class " \o obj.name \o ")"
      [] obj.k = "Instance" -> "(instance)"

\* LoxUserFn::from_def
FromDef(decl, closure) == UserFn(decl.body, decl.params, closure)

\* A bind that defines the receiver in the method's own closure
BindInPlace(s, f, instance) ==
    [s EXCEPT !.envs[f.closure].map = MapPut(@, "@", InstanceObj(instance)), !.v = f]

\* LoxUserFn::bind: a new frame whose parent is the method's closure and that
\* binds "@"; the bound function is left in v, the frame is the last one
Bind(s, f, instance) ==
    LET s1 == NewEnv(s, f.closure)
        m  == LastEnv(s1)
        s2 == EnvDefine(s1, m, "@", InstanceObj(instance))
    IN  [s2 EXCEPT !.v = UserFn(f.body, f.params, m)]

\* A bind of f to an instance took the Interpreter from s to b, kept in the
\* history: the closure of f before and after, the bound function and its frame
Bound(s, f, instance, b) ==
    Logged(b, [t |-> "bind", inst |-> instance, f |-> f, frames |-> Len(s.envs),
               before |-> s.envs[f.closure], after |-> b.envs[f.closure],
               bound |-> b.v, frame |-> b.v.closure, made |-> b.envs[b.v.closure],
               methods |-> b.insts[instance].class.methods])

\* LoxClass::find_method
FindMethod(class, name) ==
    IF name \in DOMAIN class.methods THEN Some(class.methods[name]) ELSE NoRet

\* LoxInstance::new
InstanceNew(class) == [class |-> class, fields |-> EmptyMap]

\* A get that looks at the class's methods before the fields
InstanceGetMethodFirst(s, i, name) ==
    LET m == FindMethod(s.insts[i].class, name)
    IN  IF m # NoRet THEN Bound(s, m.v, i, Bind(s, m.v, i))
        ELSE IF name \in DOMAIN s.insts[i].fields THEN [s EXCEPT !.v = s.insts[i].fields[name]]
        ELSE Fail(s, "NoFieldWithName", name)

\* LoxInstance::get: fields first, then the class's methods (bound)
InstanceGet(s, i, name) ==
    IF name \in DOMAIN s.insts[i].fields THEN [s EXCEPT !.v = s.insts[i].fields[name]]
    ELSE LET m == FindMethod(s.insts[i].class, name)
         IN  IF m # NoRet THEN Bound(s, m.v, i, Bind(s, m.v, i))
             ELSE Fail(s, "NoFieldWithName", name)

\* A set that keeps the value a field already has
InstanceSetOnce(s, i, name, value) ==
    IF name \in DOMAIN s.insts[i].fields THEN s
    ELSE [s EXCEPT !.insts[i].fields = MapPut(@, name, value)]

\* LoxInstance::set
InstanceSet(s, i, name, value) == [s EXCEPT !.insts[i].fields = MapPut(@, name, value)]

\* A property get on instance i took the Interpreter from s to r, kept in the
\* history with the fields and the method it found and what it yielded
Got(s, i, name, r) ==
    Logged(r, [t |-> "get", inst |-> i, name |-> name, fields |-> s.insts[i].fields,
               method |-> FindMethod(s.insts[i].class, name),
               result |-> r.result, v |-> r.v,
               closure |-> IF r.v.k = "UserFn" THEN r.envs[r.v.closure] ELSE EnvRec(0)])

\* A property set on operand obj took the Interpreter to r, kept in the history
\* with the value written and the operand's field table afterwards
WasSet(obj, name, value, r) ==
    Logged(r, [t |-> "set", operand |-> obj, name |-> name, value |-> value,
               result |-> r.result, v |-> r.v,
               fields |-> IF obj.k = "Instance" THEN r.insts[obj.id].fields ELSE EmptyMap])

(***************************************************************************)
(* Interpreter (runtime/interpreter.rs).                                   *)
(***************************************************************************)
\* An arity check that lets a call with surplus arguments through
AcceptsExtraArguments(n1, n2) == n1 <= n2

\* Interpreter::ensure_arities
EnsureArities(n1, n2) == n1 = n2

\* A callee frame made a child of the caller's active Environment
ParentIsCaller(def, s) == s.env

\* Interpreter::scope_from_args: Env::from_parent(closure), the parent of the
\* callee's frame
ScopeParent(def, s) == def.closure

\* invoke_user_fn is entered, kept in the history; a call whose arity check
\* will fail keeps the heap and the output it found
Invoked(def, args, s) ==
    Logged(s, [t |-> "invoke", line |-> s.line, params |-> Len(def.params),
               args |-> Len(args), closure |-> def.closure,
               found |-> IF Len(def.params) = Len(args) THEN <<>>
                         ELSE <<s.envs, s.insts, s.out>>])

\* A statement list that runs on after a `return`
NeverStopsOnReturn(ret) == FALSE

\* interpret_stmts: `if let Some(obj) = self.interpret(stmt)? { return ... }`
StopsOnReturn(ret) == ret # NoRet

\* visit_call_expr: self.invoke(fn_obj, &call.args)?.unwrap_or_else(|| LoxObj::nil())
CallValue(ret) == IF ret = NoRet THEN Nil ELSE ret.v

\* visit_while_stmt: what the loop does with the Option its body returned
\* (`self.interpret_stmts_with_scope(..)?;` drops it and loops on)
WhileStopsOn(ret) == FALSE

\* Interpreter::lookup_resolved's choice: the distance cached for the use, -1 if none
CachedDistance(s, name, id) ==
    IF VarUseData(name, id) \in DOMAIN s.caches THEN s.caches[VarUseData(name, id)] ELSE -1

RECURSIVE Eval(_, _)
RECURSIVE Exec(_, _)
RECURSIVE InterpretStmts(_, _)
RECURSIVE ScopeFromArgs(_, _, _, _, _)
RECURSIVE VisitWhileStmt(_, _)
RECURSIVE VisitIfStmt(_, _)

\* Interpreter::lookup_resolved
LookupResolved(s, name, id) ==
    LET d  == CachedDistance(s, name, id)
        s0 == Logged(s, [t |-> "lookup", line |-> s.line, id |-> id, name |-> name,
                         env |-> s.env, d |-> d, depth |-> ChainDepth(s, s.env)])
    IN  IF d >= 0 THEN GetResolved(s0, s0.env, name, d)
        ELSE LET g == EnvGet(s0, s0.globals, name)
             IN  IF g.ok THEN [s0 EXCEPT !.v = g.v] ELSE Fail(s0, "Undefined", name)

\* An interpret_stmts_with_scope that puts `prev` back only when the statements
\* returned Ok
RestoreEnvWhenOk(prev, r) ==
    IF r.panic \/ r.hung \/ r.result # OkRun THEN r ELSE [Unhold(r) EXCEPT !.env = prev]

\* Interpreter::interpret_stmts_with_scope, after interpret_stmts: `self.env = prev`
\* on the Ok and on the Err path
RestoreEnv(prev, r) ==
    IF r.panic \/ r.hung THEN r ELSE [Unhold(r) EXCEPT !.env = prev]

\* interpret_stmts_with_scope has returned r to the Interpreter s that called
\* it, kept in the history: the Environment active at the call and on return,
\* and what was returned
Left(s, scope, r) ==
    IF r.panic \/ r.hung THEN r
    ELSE Logged(r, [t |-> "leave", scope |-> scope, prev |-> s.env, env |-> r.env,
                    result |-> r.result, ret |-> r.ret])

\* Interpreter::interpret_stmts_with_scope; the scope is frame `scope` of the heap
InterpretStmtsWithScope(stmts, scope, s) ==
    Left(s, scope,
         RestoreEnv(s.env, InterpretStmts(stmts, [Hold(s, HeldEnv(s.env)) EXCEPT !.env = scope])))

\* Interpreter::scope_from_args, one turn of the loop: scope.define(params[i], obj)
DefineParam(params, args, scope, i, r) ==
    IF Abnormal(r) THEN r
    ELSE ScopeFromArgs(params, args, scope, i + 1, EnvDefine(r, scope, params[i], r.v))

\* Interpreter::scope_from_args: the loop over the parameters, from index i;
\* the scope under construction is frame `scope`, held by the host stack
ScopeFromArgs(params, args, scope, i, s) ==
    IF Abnormal(s) \/ i > Len(params) THEN s
    ELSE DefineParam(params, args, scope, i,
                     Eval(args[i], Logged(s, [t |-> "arg", scope |-> scope, i |-> i,
                                              env |-> s.env])))

\* Interpreter::invoke_user_fn, after the body ran
CallEnd(s, act, r) ==
    IF r.panic \/ r.hung THEN r
    ELSE [r EXCEPT !.act = s.act, !.inWhile = s.inWhile,
                   !.log = Append(@, [t |-> "callend", act |-> act,
                                      ok |-> r.result = OkRun,
                                      v |-> CallValue(r.ret)])]

\* Interpreter::invoke_user_fn, after scope_from_args:
\* self.interpret_stmts_with_scope(&def.body, scope)
CallBody(def, s, scope, s2) ==
    IF Abnormal(s2) THEN s2
    ELSE LET act == s2.nact + 1
             s3  == [Unhold(s2) EXCEPT !.act = act, !.nact = act, !.inWhile = 0]
         IN  CallEnd(s, act,
                     InterpretStmtsWithScope(def.body, scope,
                         Logged(s3, [t |-> "callbegin", act |-> act, scope |-> scope,
                                     caller |-> s.env, closure |-> def.closure,
                                     parent |-> s3.envs[scope].parent,
                                     nparams |-> Len(def.params),
                                     frames |-> Len(s.envs)])))

\* Interpreter::invoke_user_fn; leaves the Option the body returned in ret
InvokeUserFn(def, args, s) ==
    IF ~EnsureArities(Len(def.params), Len(args))
    THEN Fail(Invoked(def, args, s), "WrongNumberOfArguments", "")
    ELSE LET s1    == NewEnv(Invoked(def, args, s), ScopeParent(def, s))
             scope == LastEnv(s1)
         IN  CallBody(def, s, scope,
                      ScopeFromArgs(def.params, args, scope, 1, Hold(s1, HeldEnv(scope))))

\* Interpreter::native_clock (the elapsed time is 0 in the model)
NativeClock(args, s) ==
    IF ~EnsureArities(0, Len(args)) THEN Fail(s, "WrongNumberOfArguments", "")
    ELSE [s EXCEPT !.ret = Some(Number(0))]

\* Interpreter::invoke
Invoke(fn_obj, args, s) ==
    IF fn_obj.k = "UserFn" THEN InvokeUserFn(fn_obj, args, s)
    ELSE NativeClock(args, s)

\* Interpreter::visit_unary_expr, r the state after the operand
VisitUnaryExpr(e, r) ==
    IF Abnormal(r) THEN r
    ELSE IF e.oper = "Minus"
         THEN IF r.v.k = "Number" THEN [r EXCEPT !.v = Number(0 - r.v.n)]
              ELSE Fail(r, "MismatchedType", "")
         ELSE [Tested(r, "Not") EXCEPT !.v = Bool(~IsTruthy(r.v))]

\* Interpreter::visit_binary_expr, l and r0 the states after the operands
BinaryOf(e, l, r0) ==
    IF Abnormal(r0) THEN r0
    ELSE LET r  == Unhold(r0)
             bv == BinaryValue(e.oper, l.v, r.v)
             done == IF ~IsValue(l.v) \/ ~IsValue(r.v) THEN Fail(r, "MismatchedType", "")
                     ELSE IF bv = NoRet THEN Fail(r, "MismatchedType", "")
                     ELSE [r EXCEPT !.v = bv.v]
         IN  Logged(done, [t |-> "binary", oper |-> e.oper, l |-> l.v, r |-> r.v,
                           result |-> done.result, v |-> done.v])

\* Interpreter::visit_binary_expr, l the state after the left operand
VisitBinaryExpr(e, l) ==
    IF Abnormal(l) THEN l ELSE BinaryOf(e, l, Eval(e.right, Hold(l, l.v)))

\* Interpreter::visit_logic_expr: LoxObj::bool(self.visit_expr(&logic.right)?.is_truthy())
LogicOf(r) ==
    IF Abnormal(r) THEN r ELSE [Tested(r, "right") EXCEPT !.v = Bool(IsTruthy(r.v))]

\* Interpreter::visit_logic_expr, l the state after the left operand
VisitLogicExpr(e, l) ==
    IF Abnormal(l) THEN l
    ELSE IF e.oper = "Or" /\ IsTruthy(l.v) THEN [Tested(l, e.oper) EXCEPT !.v = Bool(TRUE)]
    ELSE IF e.oper = "And" /\ ~IsTruthy(l.v) THEN [Tested(l, e.oper) EXCEPT !.v = Bool(FALSE)]
    ELSE LogicOf(Eval(e.right, Tested(l, e.oper)))

\* Env::assign took the Interpreter from r to a, kept in the history: the chain
\* of the active Environment as linked, which of its frames bound the name, the
\* frames that changed and the frame written, before and after
Assigned(e, r, a) ==
    Logged(a, [t |-> "assign", line |-> r.line, id |-> e.id,
               name |-> e.name, env |-> r.env,
               frame |-> AssignFrame(r, r.env, e.name),
               d |-> CachedDistance(r, e.name, e.id),
               value |-> r.v, result |-> a.result,
               chain |-> Chain(r, r.env),
               binds |-> {f \in 1..Len(r.envs) : e.name \in DOMAIN r.envs[f].map},
               changed |-> {f \in 1..Len(r.envs) : a.envs[f] # r.envs[f]},
               had |-> r.envs, has |-> a.envs])

\* Interpreter::visit_assign_expr, r the state after the right-hand side
VisitAssignExpr(e, r) ==
    IF Abnormal(r) THEN r
    ELSE Assigned(e, r, EnvAssign(r, r.env, e.name, r.v))

\* Interpreter::visit_call_expr: self.invoke(..)?.unwrap_or_else(|| LoxObj::nil())
CallResult(r) ==
    IF Abnormal(r) THEN r
    ELSE [Unhold(r) EXCEPT !.v = CallValue(r.ret), !.ret = NoRet]

\* A constructor call that yields what `init` returned, when it returned a value
YieldsInitReturn(i, ret) == IF ret = NoRet THEN InstanceObj(i) ELSE ret.v

\* Interpreter::visit_call_expr, class arm: Ok(LoxObj::Instance(instance)),
\* whatever invoke_user_fn returned for `init`
ConstructedValue(i, ret) == InstanceObj(i)

\* The constructor call is over, kept in the history with what `init` returned
Constructed(i, init, ret, r) ==
    Logged(r, [t |-> "construct", inst |-> i, init |-> init, ret |-> ret, v |-> r.v])

\* Interpreter::visit_call_expr, class arm, after the initializer ran
InitResult(i, r) ==
    IF Abnormal(r) THEN r
    ELSE Constructed(i, TRUE, r.ret,
                     [Unhold(Unhold(Unhold(r))) EXCEPT !.v = ConstructedValue(i, r.ret),
                                                       !.ret = NoRet])

\* Interpreter::visit_call_expr, class arm: the instance, then "init" if there is one
CallClass(e, c) ==
    LET class == c.v
        s0 == [c EXCEPT !.insts = Append(@, InstanceNew(class))]
        i  == Len(s0.insts)
        initializer == FindMethod(class, "init")
        s1 == Logged(s0, [t |-> "new", inst |-> i, insts |-> Len(c.insts),
                          fields |-> s0.insts[i].fields, class |-> s0.insts[i].class,
                          init |-> initializer # NoRet, nargs |-> Len(e.args)])
        s2 == Hold(Hold(s1, class), InstanceObj(i))
        b  == Bound(s2, initializer.v, i, Bind(s2, initializer.v, i))
    IN  IF initializer = NoRet
        THEN Constructed(i, FALSE, NoRet,
                         [Unhold(Unhold(s2)) EXCEPT !.v = ConstructedValue(i, NoRet)])
        ELSE IF Abnormal(b) THEN b
        ELSE InitResult(i, InvokeUserFn(b.v, e.args, Hold(b, b.v)))

\* Interpreter::visit_call_expr, c the state after the callee
VisitCallExpr(e, c) ==
    IF Abnormal(c) THEN c
    ELSE CASE c.v.k \in {"UserFn", "Clock"} ->
                CallResult(Invoke(c.v, e.args, Hold(c, c.v)))
           [] c.v.k = "Class" -> CallClass(e, c)
           [] OTHER -> Fail(c, "MismatchedType", "")

\* Interpreter::visit_get_expr, b the state after the body
VisitGetExpr(e, b) ==
    IF Abnormal(b) THEN b
    ELSE IF b.v.k = "Instance" THEN Got(b, b.v.id, e.name, InstanceGet(b, b.v.id, e.name))
    ELSE Fail(b, "NotForDotOperator", "")

\* Interpreter::visit_set_expr, r the state after the value
SetOf(e, b, r) ==
    IF Abnormal(r) THEN r
    ELSE WasSet(b.v, e.name, r.v,
                [InstanceSet(Unhold(r), b.v.id, e.name, r.v) EXCEPT !.v = Nil])

\* Interpreter::visit_set_expr, b the state after the body
VisitSetExpr(e, b) ==
    IF Abnormal(b) THEN b
    ELSE IF b.v.k # "Instance"
         THEN WasSet(b.v, e.name, Nil, Fail(b, "NotForDotOperator", ""))
    ELSE SetOf(e, b, Eval(e.value, Hold(b, b.v)))

\* Interpreter::visit_self_expr
VisitSelfExpr(s) == GetResolved(s, s.env, "@", 0)

\* Interpreter::eval_expr / visit_expr: ExprVisitor's dispatch
Eval(e, s) ==
    IF Abnormal(s) THEN s
    ELSE CASE e.k = "Literal"  -> [s EXCEPT !.v = FromLit(e.v)]
           [] e.k = "Unary"    -> VisitUnaryExpr(e, Eval(e.expr, s))
           [] e.k = "Binary"   -> VisitBinaryExpr(e, Eval(e.left, s))
           [] e.k = "Logic"    -> VisitLogicExpr(e, Eval(e.left, s))
           [] e.k = "Variable" -> LookupResolved(s, e.name, e.id)
           [] e.k = "Assign"   -> VisitAssignExpr(e, Eval(e.expr, s))
           [] e.k = "Call"     -> VisitCallExpr(e, Eval(e.callee, s))
           [] e.k = "Get"      -> VisitGetExpr(e, Eval(e.body, s))
           [] e.k = "Set"      -> VisitSetExpr(e, Eval(e.body, s))
           [] e.k = "Self_"    -> VisitSelfExpr(s)

\* Interpreter::interpret_stmts, r the state after the first statement
StmtDone(stmts, r) ==
    IF Abnormal(r) THEN r
    ELSE IF StopsOnReturn(r.ret) THEN r
    ELSE InterpretStmts(Tail(stmts), r)

\* Interpreter::interpret_stmts
InterpretStmts(stmts, s) ==
    IF Abnormal(s) THEN s
    ELSE IF stmts = <<>> THEN [s EXCEPT !.ret = NoRet]
    ELSE StmtDone(stmts, Exec(Head(stmts), s))

\* Interpreter::visit_block_stmt
VisitBlockStmt(stmts, s) ==
    LET s1 == NewEnv(s, s.env)
    IN  InterpretStmtsWithScope(stmts, LastEnv(s1), s1)

\* Interpreter::visit_if_stmt, c the state after the condition
IfBranch(if_, c) ==
    IF Abnormal(c) THEN c
    ELSE IF IsTruthy(c.v) THEN VisitBlockStmt(if_.if_true, [Tested(c, "If") EXCEPT !.v = Nil])
    ELSE CASE if_.if_false.k = "ElseIf" ->
                VisitIfStmt(if_.if_false.if_, [Tested(c, "If") EXCEPT !.v = Nil])
           [] if_.if_false.k = "JustElse" ->
                VisitBlockStmt(if_.if_false.stmts, [Tested(c, "If") EXCEPT !.v = Nil])
           [] OTHER -> [Tested(c, "If") EXCEPT !.v = Nil, !.ret = NoRet]

\* Interpreter::visit_if_stmt
VisitIfStmt(if_, s) == IfBranch(if_, Eval(if_.condition, s))

\* Interpreter::visit_while_stmt, b the state after the body
WhileNext(w, s, b) ==
    IF Abnormal(b) THEN b
    ELSE IF WhileStopsOn(b.ret) THEN [b EXCEPT !.inWhile = s.inWhile]
    ELSE VisitWhileStmt(w, [b EXCEPT !.inWhile = s.inWhile, !.ret = NoRet])

\* Interpreter::visit_while_stmt, c the state after the condition
WhileBody(w, s, c) ==
    IF Abnormal(c) THEN c
    ELSE IF ~IsTruthy(c.v) THEN [Tested(c, "While") EXCEPT !.v = Nil, !.ret = NoRet]
    ELSE WhileNext(w, s, VisitBlockStmt(w.stmts,
                             [Tested(c, "While") EXCEPT !.v = Nil, !.inWhile = @ + 1]))

\* Interpreter::visit_while_stmt; a loop that outlasts the fuel is cut off as hung
VisitWhileStmt(w, s) ==
    IF Abnormal(s) THEN s
    ELSE IF s.fuel = 0 THEN [s EXCEPT !.hung = TRUE]
    ELSE WhileBody(w, s, Eval(w.condition, [s EXCEPT !.fuel = @ - 1]))

\* The methods table of visit_class_decl: a later method of the same name
\* replaces an earlier one
MethodTable(methods, closure) ==
    [n \in {methods[i].name : i \in 1..Len(methods)} |->
        LET last == CHOOSE i \in 1..Len(methods) :
                        /\ methods[i].name = n
                        /\ \A j \in 1..Len(methods) : methods[j].name = n => j <= i
        IN  FromDef(methods[last], closure)]

\* Interpreter::visit_expr_stmt
VisitExprStmt(r) ==
    IF Abnormal(r) THEN r ELSE [r EXCEPT !.v = Nil, !.ret = NoRet]

\* Interpreter::visit_print_stmt
VisitPrintStmt(r) ==
    IF Abnormal(r) THEN r
    ELSE [r EXCEPT !.out = Append(@, PrettyPrint(r.v)), !.v = Nil, !.ret = NoRet]

\* Interpreter::visit_var_decl, r the state after the initializer
VisitVarDecl(st, r) ==
    IF Abnormal(r) THEN r
    ELSE [EnvDefine(r, r.env, st.name, r.v) EXCEPT !.v = Nil, !.ret = NoRet]

\* Interpreter::visit_return_stmt, r the state after the expression
VisitReturnStmt(r) ==
    IF Abnormal(r) THEN r
    ELSE [r EXCEPT !.ret = Some(r.v), !.v = Nil,
                   !.log = Append(@, [t |-> "return", act |-> r.act,
                                      v |-> r.v, inWhile |-> r.inWhile])]

\* Interpreter::visit_fn_decl
VisitFnDecl(st, s) ==
    [EnvDefine(s, s.env, st.f.name, FromDef(st.f, s.env)) EXCEPT !.ret = NoRet]

\* Interpreter::visit_class_decl
VisitClassDecl(st, s) ==
    [EnvDefine(s, s.env, st.name, ClassObj(st.name, MethodTable(st.methods, s.env)))
        EXCEPT !.ret = NoRet]

\* A statement starts: one unit of fuel, one entry of the history
Started(st, s) ==
    Logged([s EXCEPT !.fuel = @ - 1],
           [t |-> "exec", act |-> s.act, kind |-> st.k, line |-> s.line])

\* Interpreter::interpret(stmt): StmtVisitor's dispatch
Exec(st, s) ==
    IF Abnormal(s) THEN s
    ELSE IF s.fuel = 0 THEN [s EXCEPT !.hung = TRUE]
    ELSE CASE st.k = "Expr"   -> VisitExprStmt(Eval(st.expr, Started(st, s)))
           [] st.k = "Print"  -> VisitPrintStmt(Eval(st.expr, Started(st, s)))
           [] st.k = "Var"    -> VisitVarDecl(st, Eval(st.init, Started(st, s)))
           [] st.k = "If"     -> VisitIfStmt(st.if_, Started(st, s))
           [] st.k = "Block"  -> VisitBlockStmt(st.stmts, Started(st, s))
           [] st.k = "Return" -> VisitReturnStmt(Eval(st.expr, Started(st, s)))
           [] st.k = "While"  -> VisitWhileStmt(st, Started(st, s))
           [] st.k = "Fn"     -> VisitFnDecl(st, Started(st, s))
           [] st.k = "Class"  -> VisitClassDecl(st, Started(st, s))

\* The host stack is empty again when a top-level statement is over
Settled(r) == [r EXCEPT !.held = <<>>, !.v = Nil]

\* lib.rs interpret(): interpreter.interpret(stmt) for one top-level statement
Interpret(stmt, s) ==
    Settled(Exec(stmt, [s EXCEPT !.fuel = MaxFuel, !.v = Nil, !.ret = NoRet]))


(***************************************************************************)
(* Sources fed to the interpreter.  `lines` holds one source per call of   *)
(* run_string: one for run_file, one per input line for run_repl.          *)
(***************************************************************************)
Src(name, repl, lines) == [name |-> name, repl |-> repl, lines |-> lines]

\* var x = 1; { var x = 2; print x; } print x;
SrcShadow ==
    Src("shadow", FALSE,
        << << VarS("x", N(1)), BlockS(<<VarS("x", N(2)), PrintS(V("x"))>>),
              PrintS(V("x")) >> >>)

\* var x = 1; { var x = 2; { { print x; } } } print x;
SrcShadowDeep ==
    Src("shadowDeep", FALSE,
        << << VarS("x", N(1)),
              BlockS(<<VarS("x", N(2)), BlockS(<<BlockS(<<PrintS(V("x"))>>)>>)>>),
              PrintS(V("x")) >> >>)

\* { var y = 3; { print y; } }
SrcOneUp ==
    Src("oneUp", FALSE, << << BlockS(<<VarS("y", N(3)), BlockS(<<PrintS(V("y"))>>)>>) >> >>)

\* fn make() { var c = 0; fn inc() { c = c + 1; return c; } return inc; }
\* var a = make(); print a();
SrcCounter ==
    Src("counter", FALSE,
        << << FnS("make", <<>>,
                  <<VarS("c", N(0)),
                    FnS("inc", <<>>, <<ExprS(Asg("c", Bin(V("c"), "Plus", N(1)))),
                                       ReturnS(V("c"))>>),
                    ReturnS(V("inc"))>>),
              VarS("a", Call(V("make"), <<>>)),
              PrintS(Call(V("a"), <<>>)) >> >>)

\* var h = 0;
\* fn outer() { var x = 7; { fn g() { return x; } { { h = g; } } } }
\* outer(); print h();
SrcBlockClosure ==
    Src("blockClosure", FALSE,
        << << VarS("h", N(0)),
              FnS("outer", <<>>,
                  <<VarS("x", N(7)),
                    BlockS(<<FnS("g", <<>>, <<ReturnS(V("x"))>>),
                             BlockS(<<BlockS(<<ExprS(Asg("h", V("g")))>>)>>)>>)>>),
              ExprS(Call(V("outer"), <<>>)),
              PrintS(Call(V("h"), <<>>)) >> >>)

\* var k = 0; fn mk() { fn g() { return 8; } { { k = g; } } } mk(); print k();
SrcFnClosure ==
    Src("fnClosure", FALSE,
        << << VarS("k", N(0)),
              FnS("mk", <<>>,
                  <<FnS("g", <<>>, <<ReturnS(N(8))>>),
                    BlockS(<<BlockS(<<ExprS(Asg("k", V("g")))>>)>>)>>),
              ExprS(Call(V("mk"), <<>>)),
              PrintS(Call(V("k"), <<>>)) >> >>)

\* fn f() { { return 1; print 2; } print 3; } print f();
SrcReturnBlock ==
    Src("returnBlock", FALSE,
        << << FnS("f", <<>>, <<BlockS(<<ReturnS(N(1)), PrintS(N(2))>>), PrintS(N(3))>>),
              PrintS(Call(V("f"), <<>>)) >> >>)

\* fn f(a) { if a { { return 1; } print 2; } else { return 4; } print 3; }
\* print f(true); print f(false);
SrcReturnIf ==
    Src("returnIf", FALSE,
        << << FnS("f", <<"a">>,
                  <<IfS(Lit(Bool(TRUE)),
                        <<BlockS(<<ReturnS(N(1))>>), PrintS(N(2))>>,
                        JustElse(<<ReturnS(N(4))>>)),
                    PrintS(N(3))>>),
              PrintS(Call(V("f"), <<T>>)),
              FnS("g", <<>>,
                  <<IfS(F, <<PrintS(N(5))>>,
                        ElseIf(IfArgs(F, <<PrintS(N(6))>>, JustElse(<<ReturnS(N(4))>>)))),
                    PrintS(N(3))>>),
              PrintS(Call(V("g"), <<>>)) >> >>)

\* fn f() { print 1; } print f();  fn g() { return f; } print g()();
SrcNoReturn ==
    Src("noReturn", FALSE,
        << << FnS("f", <<>>, <<PrintS(N(1))>>),
              PrintS(Call(V("f"), <<>>)),
              FnS("g", <<>>, <<ReturnS(V("f"))>>),
              PrintS(Call(Call(V("g"), <<>>), <<>>)) >> >>)

\* fn w() { while true { return 1; } } print w();
SrcWhileReturn ==
    Src("whileReturn", FALSE,
        << << FnS("w", <<>>, <<WhileS(T, <<ReturnS(N(1))>>)>>),
              PrintS(Call(V("w"), <<>>)) >> >>)

\* var i = 0; fn w() { while i < 2 { i = i + 1; return 5; } return 9; } print w();
SrcWhileReturnCounted ==
    Src("whileReturnCounted", FALSE,
        << << VarS("i", N(0)),
              FnS("w", <<>>,
                  <<WhileS(Bin(V("i"), "Less", N(2)),
                           <<ExprS(Asg("i", Bin(V("i"), "Plus", N(1)))), ReturnS(N(5))>>),
                    ReturnS(N(9))>>),
              PrintS(Call(V("w"), <<>>)),
              PrintS(V("i")) >> >>)

\* var a = a;
SrcSelfInitTop == Src("selfInitTop", FALSE, << << VarS("a", V("a")) >> >>)

\* print 1; { var a = a; }
SrcSelfInitBlock ==
    Src("selfInitBlock", FALSE,
        << << PrintS(N(1)), BlockS(<<VarS("a", V("a"))>>) >> >>)

\* var q = 1; fn f() { var a = a + 1; } print q;
SrcSelfInitFn ==
    Src("selfInitFn", FALSE,
        << << VarS("q", N(1)),
              FnS("f", <<>>, <<VarS("a", Bin(V("a"), "Plus", N(1)))>>),
              PrintS(V("q")) >> >>)

\* { var a = 1; var a = 2; } return 1;
SrcTwoErrors ==
    Src("twoErrors", FALSE,
        << << BlockS(<<VarS("a", N(1)), VarS("a", N(2))>>), ReturnS(N(1)) >> >>)

\* print self; fn f(a, a) { } { var b = b; }
SrcThreeErrors ==
    Src("threeErrors", FALSE,
        << << PrintS(Self), FnS("f", <<"a", "a">>, <<>>),
              BlockS(<<VarS("b", V("b"))>>) >> >>)

\* fn f() { return 1; } return 2;
SrcReturnTop ==
    Src("returnTop", FALSE,
        << << FnS("f", <<>>, <<ReturnS(N(1))>>), ReturnS(N(2)) >> >>)

\* > var a = 1;   > print a;   > print a + a;
SrcReplReads ==
    Src("replReads", TRUE,
        << << VarS("a", N(1)) >>, << PrintS(V("a")) >>,
           << PrintS(Bin(V("a"), "Plus", V("a"))) >> >>)

\* > { var a = 1; { { print a; } } }   > var a = 5;   > print a;
SrcReplStaleCache ==
    Src("replStaleCache", TRUE,
        << << BlockS(<<VarS("a", N(1)), BlockS(<<BlockS(<<PrintS(V("a"))>>)>>)>>) >>,
           << VarS("a", N(5)) >>, << PrintS(V("a")) >> >>)

\* > var a = 1;   > print 1 + true;   > { var b = b; }   > print a;
SrcReplErrors ==
    Src("replErrors", TRUE,
        << << VarS("a", N(1)) >>, << PrintS(Bin(N(1), "Plus", T)), PrintS(N(0)) >>,
           << PrintS(N(2)), BlockS(<<VarS("b", V("b"))>>) >>, << PrintS(V("a")) >> >>)

\* var g = 1; if true { print g; }  if false { } else { print g; }  { print g; }
SrcIfDepth ==
    Src("ifDepth", FALSE,
        << << VarS("g", N(1)),
              IfS(T, <<PrintS(V("g"))>>, NoElse),
              IfS(F, <<>>, JustElse(<<PrintS(V("g"))>>)),
              BlockS(<<PrintS(V("g"))>>) >> >>)

\* var g = 1; var n = 0; while n < 1 { n = n + 1; print g; }
\* fn f() { print g; } f();
SrcWhileFnDepth ==
    Src("whileFnDepth", FALSE,
        << << VarS("g", N(1)), VarS("n", N(0)),
              WhileS(Bin(V("n"), "Less", N(1)),
                     <<ExprS(Asg("n", Bin(V("n"), "Plus", N(1)))), PrintS(V("g"))>>),
              FnS("f", <<>>, <<PrintS(V("g"))>>),
              ExprS(Call(V("f"), <<>>)) >> >>)

\* var g = 3; class C { fn show() { print g; } } var c = C(); c.show();
SrcMethodDepth ==
    Src("methodDepth", FALSE,
        << << VarS("g", N(3)),
              ClassS("C", <<FnDeclArgs("show", <<>>, <<PrintS(V("g"))>>)>>),
              VarS("c", Call(V("C"), <<>>)),
              ExprS(Call(Get(V("c"), "show"), <<>>)) >> >>)

\* class P { fn init(v) { self.v = v; } fn get() { return self.v; } }
\* print P(5).get();
SrcClassInit ==
    Src("classInit", FALSE,
        << << ClassS("P", <<FnDeclArgs("init", <<"v">>, <<ExprS(Set(Self, "v", V("v")))>>),
                            FnDeclArgs("get", <<>>, <<ReturnS(Get(Self, "v"))>>)>>),
              PrintS(Call(Get(Call(V("P"), <<N(5)>>), "get"), <<>>)) >> >>)

\* class Q { } var p = Q(); p.v = 5; p.v = 6; print p.v; print p.w;
SrcFields ==
    Src("fields", FALSE,
        << << ClassS("Q", <<>>), VarS("p", Call(V("Q"), <<>>)),
              ExprS(Set(V("p"), "v", N(5))), ExprS(Set(V("p"), "v", N(6))),
              PrintS(Get(V("p"), "v")), PrintS(Get(V("p"), "w")) >> >>)

\* fn id(a) { { { return a; } } } print id(4); print id(); print id(1, 2);
SrcParams ==
    Src("params", TRUE,
        << << FnS("id", <<"a">>, <<BlockS(<<BlockS(<<ReturnS(V("a"))>>)>>)>>) >>,
           << PrintS(Call(V("id"), <<N(4)>>)) >>,
           << PrintS(Call(V("id"), <<>>)) >>,
           << PrintS(Call(V("id"), <<N(1), N(2)>>)) >>,
           << PrintS(Call(V("clock"), <<>>)) >> >>)

\* fn id(a) { return a; } print id(4);
SrcParamDirect ==
    Src("paramDirect", FALSE,
        << << FnS("id", <<"a">>, <<ReturnS(V("a"))>>),
              PrintS(Call(V("id"), <<N(4)>>)) >> >>)

\* print 1 == 1; print 1 != 1; print nil == nil; print !0; print -"s";
SrcOperators ==
    Src("operators", TRUE,
        << << PrintS(Bin(N(1), "Equal", N(1))) >>,
           << PrintS(Bin(N(1), "NotEqual", N(1))) >>,
           << PrintS(Bin(Lit(Nil), "Equal", Lit(Nil))) >>,
           << PrintS(Un("Not", N(0))), PrintS(Logic(Lit(Nil), "And", N(1))),
              PrintS(Logic(F, "Or", T)) >>,
           << PrintS(Bin(Lit(StringLit("a")), "Plus", Lit(StringLit("b")))) >>,
           << PrintS(Un("Minus", Lit(StringLit("s")))) >>,
           << PrintS(Bin(N(6), "Div", N(2))), PrintS(Bin(N(2), "Mul", N(3))),
              PrintS(Bin(N(2), "Minus", N(3))), PrintS(Bin(N(2), "GreaterEqual", N(3))) >> >>)

\* fn f(a) { if true { { print a; } } } f(7);
SrcIfLocal ==
    Src("ifLocal", FALSE,
        << << FnS("f", <<"a">>, <<IfS(T, <<BlockS(<<PrintS(V("a"))>>)>>, NoElse)>>),
              ExprS(Call(V("f"), <<N(7)>>)) >> >>)

\* var n = 0; fn one() { { return 1; print 0; } } while n < 2 { n = n + one(); }
\* print n;
SrcCallInWhile ==
    Src("callInWhile", FALSE,
        << << VarS("n", N(0)),
              FnS("one", <<>>, <<BlockS(<<ReturnS(N(1)), PrintS(N(0))>>)>>),
              WhileS(Bin(V("n"), "Less", N(2)),
                     <<ExprS(Asg("n", Bin(V("n"), "Plus", Call(V("one"), <<>>))))>>),
              PrintS(V("n")) >> >>)

\* var d = 0;
\* fn down() { if d < 2 { d = d + 1; return down(); } else { return d; } print 0; }
\* print down();
SrcRecursion ==
    Src("recursion", FALSE,
        << << VarS("d", N(0)),
              FnS("down", <<>>,
                  <<IfS(Bin(V("d"), "Less", N(2)),
                        <<ExprS(Asg("d", Bin(V("d"), "Plus", N(1)))),
                          ReturnS(Call(V("down"), <<>>))>>,
                        JustElse(<<ReturnS(V("d"))>>)),
                    PrintS(N(0))>>),
              PrintS(Call(V("down"), <<>>)) >> >>)

\* if 0 { print 1; } else { print 2; }  if nil { print 3; }
\* var n = ""; while n { n = nil; }  print !nil;  print 0 or false;
\* class K { } if K() { print 4; } else { print 5; }
SrcTruthiness ==
    Src("truthiness", FALSE,
        << << IfS(N(0), <<PrintS(N(1))>>, JustElse(<<PrintS(N(2))>>)),
              IfS(Lit(Nil), <<PrintS(N(3))>>, NoElse),
              VarS("n", Lit(StringLit(""))),
              WhileS(V("n"), <<ExprS(Asg("n", Lit(Nil)))>>),
              PrintS(Un("Not", Lit(Nil))),
              PrintS(Logic(N(0), "Or", F)),
              ClassS("K", <<>>),
              IfS(Call(V("K"), <<>>), <<PrintS(N(4))>>, JustElse(<<PrintS(N(5))>>)) >> >>)

\* > print 1 == "a";  > print nil == nil;  > print clock == clock;
\* > print true != 1;  > print 1 != 2;  > print "a" == "a";
SrcEquality ==
    Src("equality", TRUE,
        << << PrintS(Bin(N(1), "Equal", Lit(StringLit("a")))) >>,
           << PrintS(Bin(Lit(Nil), "Equal", Lit(Nil))) >>,
           << PrintS(Bin(V("clock"), "Equal", V("clock"))) >>,
           << PrintS(Bin(T, "NotEqual", N(1))) >>,
           << PrintS(Bin(N(1), "NotEqual", N(2))) >>,
           << PrintS(Bin(Lit(StringLit("a")), "Equal", Lit(StringLit("a")))) >> >>)

\* > var a = 0; fn f(p) { print 1; } class C { fn m(q) { print 2; } } var c = C();
\* > f(a = 1, a = 2);  > f();  > c.m();  > c.m(a = 3, 4);  > print a;
\* > f(a = 7); print a;
SrcArity ==
    Src("arity", TRUE,
        << << VarS("a", N(0)), FnS("f", <<"p">>, <<PrintS(N(1))>>),
              ClassS("C", <<FnDeclArgs("m", <<"q">>, <<PrintS(N(2))>>)>>),
              VarS("c", Call(V("C"), <<>>)) >>,
           << ExprS(Call(V("f"), <<Asg("a", N(1)), Asg("a", N(2))>>)) >>,
           << ExprS(Call(V("f"), <<>>)) >>,
           << ExprS(Call(Get(V("c"), "m"), <<>>)) >>,
           << ExprS(Call(Get(V("c"), "m"), <<Asg("a", N(3)), N(4)>>)) >>,
           << PrintS(V("a")) >>,
           << ExprS(Call(V("f"), <<Asg("a", N(7))>>)), PrintS(V("a")) >> >>)

\* var p = 1; var t = 0; fn f(p, q) { { { print q; } } }
\* { f(5, p); }  f(t = 1, t = t + 1);  print t;
SrcArgs ==
    Src("args", FALSE,
        << << VarS("p", N(1)), VarS("t", N(0)),
              FnS("f", <<"p", "q">>, <<BlockS(<<BlockS(<<PrintS(V("q"))>>)>>)>>),
              BlockS(<<ExprS(Call(V("f"), <<N(5), V("p")>>))>>),
              ExprS(Call(V("f"), <<Asg("t", N(1)), Asg("t", Bin(V("t"), "Plus", N(1)))>>)),
              PrintS(V("t")) >> >>)

\* class A { fn init(v) { { { return v; } } } }  class B { fn init() { } }
\* class D { }  var a = A(1); var b = B(); var d = D();  print a; print b; print d;
SrcConstruct ==
    Src("construct", FALSE,
        << << ClassS("A", <<FnDeclArgs("init", <<"v">>,
                                       <<BlockS(<<BlockS(<<ReturnS(V("v"))>>)>>)>>)>>),
              ClassS("B", <<FnDeclArgs("init", <<>>, <<>>)>>),
              ClassS("D", <<>>),
              VarS("a", Call(V("A"), <<N(1)>>)),
              VarS("b", Call(V("B"), <<>>)),
              VarS("d", Call(V("D"), <<>>)),
              PrintS(V("a")), PrintS(V("b")), PrintS(V("d")) >> >>)

\* class C { fn m() { return 1; } }  var a = C(); var b = C();
\* print a.m(); print b.m();  var g = a.m; print g(); print a.m();
SrcBind ==
    Src("bind", FALSE,
        << << ClassS("C", <<FnDeclArgs("m", <<>>, <<ReturnS(N(1))>>)>>),
              VarS("a", Call(V("C"), <<>>)), VarS("b", Call(V("C"), <<>>)),
              PrintS(Call(Get(V("a"), "m"), <<>>)),
              PrintS(Call(Get(V("b"), "m"), <<>>)),
              VarS("g", Get(V("a"), "m")),
              PrintS(Call(V("g"), <<>>)),
              PrintS(Call(Get(V("a"), "m"), <<>>)) >> >>)

\* > class C { fn n() { return 1; } fn k() { return 2; } }  var c = C();
\* > print c.n();  > c.n = 5; print c.n; print c.k();  > print c.zz;  > print c.n();
SrcGet ==
    Src("get", TRUE,
        << << ClassS("C", <<FnDeclArgs("n", <<>>, <<ReturnS(N(1))>>),
                            FnDeclArgs("k", <<>>, <<ReturnS(N(2))>>)>>),
              VarS("c", Call(V("C"), <<>>)) >>,
           << PrintS(Call(Get(V("c"), "n"), <<>>)) >>,
           << ExprS(Set(V("c"), "n", N(5))), PrintS(Get(V("c"), "n")),
              PrintS(Call(Get(V("c"), "k"), <<>>)) >>,
           << PrintS(Get(V("c"), "zz")) >>,
           << PrintS(Call(Get(V("c"), "n"), <<>>)) >> >>)

\* > class Q { }  var c = Q(); var d = c; var e = Q();
\* > c.x = 1; print d.x; print c.x = 2; print d.x; d.x = 3; print c.x; print e.x;
\* > var n = 1; n.x = 2;  > clock.x = 2;
SrcSet ==
    Src("set", TRUE,
        << << ClassS("Q", <<>>), VarS("c", Call(V("Q"), <<>>)), VarS("d", V("c")),
              VarS("e", Call(V("Q"), <<>>)) >>,
           << ExprS(Set(V("c"), "x", N(1))), PrintS(Get(V("d"), "x")),
              PrintS(Set(V("c"), "x", N(2))), PrintS(Get(V("d"), "x")),
              ExprS(Set(V("d"), "x", N(3))), PrintS(Get(V("c"), "x")),
              PrintS(Get(V("e"), "x")) >>,
           << VarS("n", N(1)), ExprS(Set(V("n"), "x", N(2))) >>,
           << ExprS(Set(V("clock"), "x", N(2))) >> >>)

\* > var x = 1; { var x = 2; { x = 3; } { x = 3; } } x = 4; print x;
\* > y = 1;  > print y;
SrcAssign ==
    Src("assign", TRUE,
        << << VarS("x", N(1)),
              BlockS(<<VarS("x", N(2)), BlockS(<<ExprS(Asg("x", N(3)))>>),
                       BlockS(<<ExprS(Asg("x", N(3)))>>)>>),
              ExprS(Asg("x", N(4))), PrintS(V("x")) >>,
           << ExprS(Asg("y", N(1))) >>,
           << PrintS(V("y")) >> >>)

\* var x = 1; var h = 0;
\* fn outer() { { fn g() { x = 5; } { { h = g; } } } }  outer(); h(); print x;
SrcAssignDead ==
    Src("assignDead", FALSE,
        << << VarS("x", N(1)), VarS("h", N(0)),
              FnS("outer", <<>>,
                  <<BlockS(<<FnS("g", <<>>, <<ExprS(Asg("x", N(5)))>>),
                             BlockS(<<BlockS(<<ExprS(Asg("h", V("g")))>>)>>)>>)>>),
              ExprS(Call(V("outer"), <<>>)),
              ExprS(Call(V("h"), <<>>)),
              PrintS(V("x")) >> >>)

\* > { var a = 1; { var a = 2; } }  > { var a = 1; var a = 2; }  > fn f(a, a) { }
\* > fn f(p) { var p = 1; }  > var g = 1; var g = 2;  > fn h(g) { fn h() { } }
SrcDeclare ==
    Src("declare", TRUE,
        << << BlockS(<<VarS("a", N(1)), BlockS(<<VarS("a", N(2))>>)>>) >>,
           << BlockS(<<VarS("a", N(1)), VarS("a", N(2))>>) >>,
           << FnS("f", <<"a", "a">>, <<>>) >>,
           << FnS("f", <<"p">>, <<VarS("p", N(1))>>) >>,
           << VarS("g", N(1)), VarS("g", N(2)) >>,
           << FnS("h", <<"g">>, <<FnS("h", <<>>, <<>>)>>) >> >>)

\* class C { fn m() { return 1; } } while false { return 2; }
SrcReturnAfterClass ==
    Src("returnAfterClass", FALSE,
        << << ClassS("C", <<FnDeclArgs("m", <<>>, <<ReturnS(N(1))>>)>>),
              WhileS(F, <<ReturnS(N(2))>>) >> >>)

\* class C { fn m() { fn n() { print self; } } } fn f() { print self; }
SrcSelfAfterClass ==
    Src("selfAfterClass", FALSE,
        << << ClassS("C", <<FnDeclArgs("m", <<>>,
                                       <<FnS("n", <<>>, <<PrintS(Self)>>)>>)>>),
              FnS("f", <<>>, <<PrintS(Self)>>) >> >>)

\* > class P { }   > var p = P(); var g = 1; p.f = 2;
\* > g = 3; nope(); print 99;   > print g; print p.f;
SrcErrorRepl ==
    Src("errorRepl", TRUE,
        << << ClassS("P", <<>>) >>,
           << VarS("p", Call(V("P"), <<>>)), VarS("g", N(1)),
              ExprS(Set(V("p"), "f", N(2))) >>,
           << ExprS(Asg("g", N(3))), ExprS(Call(V("nope"), <<>>)), PrintS(N(99)) >>,
           << PrintS(V("g")), PrintS(Get(V("p"), "f")) >> >>)

\* var g = 1; print g; nope(); print 2;
SrcErrorFile ==
    Src("errorFile", FALSE,
        << << VarS("g", N(1)), PrintS(V("g")), ExprS(Call(V("nope"), <<>>)),
              PrintS(N(2)) >> >>)

\* var a = 1; { fn f() { a = 2; } var a = 3; { { f(); } } } print a;
SrcAssignLate ==
    Src("assignLate", FALSE,
        << << VarS("a", N(1)),
              BlockS(<<FnS("f", <<>>, <<ExprS(Asg("a", N(2)))>>),
                       VarS("a", N(3)),
                       BlockS(<<BlockS(<<ExprS(Call(V("f"), <<>>))>>)>>)>>),
              PrintS(V("a")) >> >>)

\* > fn f() { { return 1; } }   > print f(); { { } }   > { while true { nope(); } }
SrcLeave ==
    Src("leave", TRUE,
        << << FnS("f", <<>>, <<BlockS(<<ReturnS(N(1))>>)>>) >>,
           << PrintS(Call(V("f"), <<>>)), BlockS(<<BlockS(<<>>)>>) >>,
           << BlockS(<<WhileS(T, <<ExprS(Call(V("nope"), <<>>))>>)>>) >> >>)

Sources ==
    {SrcLeave, SrcAssignLate, SrcErrorRepl, SrcErrorFile, SrcSelfAfterClass, SrcReturnAfterClass, SrcDeclare, SrcAssign, SrcAssignDead, SrcGet, SrcSet, SrcConstruct, SrcBind, SrcArity, SrcArgs, SrcEquality, SrcTruthiness, SrcCallInWhile, SrcRecursion, SrcIfLocal, SrcShadow, SrcShadowDeep, SrcOneUp, SrcCounter, SrcBlockClosure, SrcFnClosure,
     SrcReturnBlock, SrcReturnIf, SrcNoReturn, SrcWhileReturn, SrcWhileReturnCounted,
     SrcSelfInitTop, SrcSelfInitBlock, SrcSelfInitFn, SrcTwoErrors, SrcThreeErrors,
     SrcReturnTop, SrcReplReads, SrcReplStaleCache, SrcReplErrors, SrcIfDepth,
     SrcWhileFnDepth, SrcMethodDepth, SrcClassInit, SrcFields, SrcParams,
     SrcParamDirect, SrcOperators}

(***************************************************************************)
(* The bytecode prototype (src/bytecode).  A chunk is a Vec of bytes, each  *)
(* an OpCode or an operand, and a Vec of constants.  A byte is kept modulo  *)
(* 2^8, a two-byte index modulo 2^16.  Value is f64: the model holds a      *)
(* value as its number of tenths, which is exact for the sums, differences  *)
(* and quotients of the chunks below (none divides by zero).                *)
(***************************************************************************)
OpReturn == 0
OpConst8 == 1
OpConst16 == 2
OpNegate == 3
OpAdd == 4
OpSub == 5
OpMul == 6
OpDiv == 7

U8(x) == x % 256
U16(x) == x % 65536

\* ChunkData::new
ChunkDataNew == [bytes |-> <<>>, consts |-> <<>>]

\* ChunkData::store_const
StoreConst(chunk, value) == [chunk EXCEPT !.consts = Append(@, value)]

\* ChunkData::push_code
PushCode(chunk, code) == [chunk EXCEPT !.bytes = Append(@, code)]

\* ChunkData::push_idx_u8
PushIdxU8(chunk, x) == [chunk EXCEPT !.bytes = @ \o <<OpConst8, U8(x)>>]

\* ChunkData::push_idx_u16: the byte `x as u8`, then the byte `(x >> 8) as u8`
PushIdxU16(chunk, x) ==
    [chunk EXCEPT !.bytes = @ \o <<OpConst16, U8(x), U8(U16(x) \div 256)>>]

\* ChunkData::read_u8 (offsets count from 0)
ReadU8(chunk, offset) == chunk.bytes[offset + 1]

\* ChunkData::read_u16: (bytes[offset] as u16) << 8 | bytes[offset + 1] as u16
ReadU16(chunk, offset) == U16(chunk.bytes[offset + 1] * 256) + chunk.bytes[offset + 2]

\* Vm::new, with the outcome of run (result: "NotRun", "Ok" or "Err"; panic: an
\* expect() or an index out of bounds; returned: what OpReturn popped) and the
\* history `loaded` of the indices the constant instructions read
VmNew ==
    [chunk |-> ChunkDataNew, ip |-> 0, stack |-> <<>>, result |-> "NotRun",
     panic |-> FALSE, undefined |-> FALSE, returned |-> <<>>, loaded |-> <<>>]

\* the operators handed to Vm::binary_op
Arith(code, a, b) ==
    CASE code = OpAdd -> a + b
      [] code = OpSub -> a - b
      [] code = OpMul -> (a * b) \div 10
      [] code = OpDiv -> (a * 10) \div b

\* an expect() on None, or an index past the end of the bytes
VmPanic(v) == [v EXCEPT !.panic = TRUE]

\* the OpConst8 / OpConst16 arms of Vm::run once the index is read
LoadConst(v, idx, code) ==
    IF idx < Len(v.chunk.consts)
    THEN [v EXCEPT !.loaded = Append(@, idx), !.stack = Append(@, v.chunk.consts[idx + 1])]
    ELSE [v EXCEPT !.loaded = Append(@, idx), !.result = "Err"]

\* Vm::binary_op
BinaryOp(v, code) ==
    IF Len(v.stack) < 2 THEN VmPanic(v)
    ELSE [v EXCEPT !.stack = Append(SubSeq(@, 1, Len(@) - 2),
                                    Arith(code, @[Len(@) - 1], @[Len(@)]))]

\* Vm::run.  A byte that is no OpCode is transmuted all the same, which is
\* undefined; the push operations above leave ip on opcodes only.
RECURSIVE Run(_)
Run(v) ==
    IF v.result # "NotRun" \/ v.panic \/ v.undefined THEN v
    ELSE IF v.ip >= Len(v.chunk.bytes) THEN [v EXCEPT !.result = "Ok"]
    ELSE LET code == ReadU8(v.chunk, v.ip)
             v1 == [v EXCEPT !.ip = @ + 1]
         IN  CASE code = OpReturn ->
                    [v1 EXCEPT !.returned = IF v.stack = <<>> THEN <<>>
                                            ELSE <<v.stack[Len(v.stack)]>>,
                               !.stack = SubSeq(@, 1, Len(@) - 1),
                               !.result = "Ok"]
               [] code = OpConst8 ->
                    IF v1.ip + 1 > Len(v.chunk.bytes) THEN VmPanic(v1)
                    ELSE Run(LoadConst([v1 EXCEPT !.ip = @ + 1],
                                       ReadU8(v.chunk, v1.ip), code))
               [] code = OpConst16 ->
                    IF v1.ip + 2 > Len(v.chunk.bytes) THEN VmPanic(v1)
                    ELSE Run(LoadConst([v1 EXCEPT !.ip = @ + 2],
                                       ReadU16(v.chunk, v1.ip), code))
               [] code = OpNegate ->
                    IF v.stack = <<>> THEN VmPanic(v1)
                    ELSE Run([v1 EXCEPT !.stack[Len(v.stack)] = 0 - @])
               [] code \in {OpAdd, OpSub, OpMul, OpDiv} -> Run(BinaryOp(v1, code))
               [] OTHER -> [v1 EXCEPT !.undefined = TRUE]

\* The calls that build a chunk
DoStore(value) == [op |-> "store_const", x |-> value]
DoIdx8(x) == [op |-> "push_idx_u8", x |-> x]
DoIdx16(x) == [op |-> "push_idx_u16", x |-> x]
DoCode(code) == [op |-> "push_code", x |-> code]

\* The largest index the chunks below load
MaxIndex == 300

\* tests::vm_binary_oper: 32.2 14.2 - 9 / negate
VmBinaryOper ==
    << DoStore(322), DoStore(142), DoStore(90),
       DoIdx8(0), DoIdx8(1), DoCode(OpSub),
       DoIdx16(2), DoCode(OpDiv),
       DoCode(OpNegate), DoCode(OpReturn) >>

\* Chunks that load one constant through a two-byte index, or two through
\* one-byte indices and combine them
VmChunks ==
    {VmBinaryOper}
    \cup {<<DoStore(10), DoStore(20), DoStore(30), DoIdx16(i), DoCode(OpReturn)>> :
            i \in 0..MaxIndex}
    \cup {<<DoStore(60), DoStore(20), DoIdx8(i), DoIdx8(1), DoCode(code), DoCode(OpReturn)>> :
            i \in 0..1, code \in {OpAdd, OpSub, OpMul, OpDiv}}

\* A test that has built nothing yet: the calls to make, the chunk they are to
\* build, and the history of the indices emitted (with the operand's offset)
TestOf(program) ==
    [vm |-> VmNew, todo |-> program, program |-> program, emitted |-> <<>>]

(***************************************************************************)
(* The driver (lib.rs / cli.rs): run_file and run_repl call run_string,    *)
(* which parses, resolves into the Interpreter's caches and, if resolution *)
(* succeeded, interprets the statements one by one.                        *)
(***************************************************************************)
VARIABLES
    src,        \* the source fed to this run
    pc,         \* where the driver is
    lineNo,     \* sources handed to run_string so far
    stmts,      \* the statements of the current run_string
    idx,        \* the statement interpret() is called on next
    interp,     \* the Interpreter and its heap
    resolved,   \* the Resolver after resolve_stmts of the current run_string
    seen,       \* history: the variable uses every Resolver visited
    before,     \* history: the Interpreter when the current run_string began
    declared,   \* history: the calls of declare of every Resolver
    bytecode    \* the bytecode Vm under test, the calls left to build its chunk

treewalk == <<src, pc, lineNo, stmts, idx, interp, resolved, seen, before, declared>>

vars == <<src, pc, lineNo, stmts, idx, interp, resolved, seen, before, declared, bytecode>>

Init ==
    /\ src \in Sources
    /\ pc = "prompt"
    /\ lineNo = 0
    /\ stmts = <<>>
    /\ idx = 0
    /\ interp = InterpreterNew
    /\ resolved = ResolverNew(EmptyMap)
    /\ seen = <<>>
    /\ before = InterpreterNew
    /\ declared = <<>>
    /\ bytecode = TestOf(<<>>)

\* A run_string that interprets whatever the Resolver said
AlwaysProceeds(rs) == TRUE

\* run_string's test after resolve_stmts: go on to interpret?
ProceedsToInterpret(rs) == ~IsErr(rs)

\* An interpret() whose loop goes on after a RuntimeError
NeverStopsAfterError(s) == FALSE

\* lib.rs interpret(): after a RuntimeError the loop returns
StopsAfterError(s) == s.result # OkRun

WithLine(trace, n) ==
    [i \in 1..Len(trace) |-> [line |-> n, t |-> trace[i].t, name |-> trace[i].name,
                              id |-> trace[i].id, depth |-> trace[i].depth,
                              inner |-> trace[i].inner]]

\* run_string: Scanner::scan and Parser::new(&tokens).parse()
ParseLine ==
    /\ pc = "prompt"
    /\ lineNo < Len(src.lines)
    /\ lineNo' = lineNo + 1
    /\ stmts' = Parse(src.lines[lineNo + 1])
    /\ before' = interp
    /\ interp' = [interp EXCEPT !.result = OkRun, !.line = lineNo + 1]
    /\ pc' = "parsed"
    /\ UNCHANGED <<src, idx, resolved, seen, declared, bytecode>>

\* run_string: Resolver::new(&mut interpreter.caches).resolve_stmts(&stmts)
ResolveLine ==
    /\ pc = "parsed"
    /\ resolved' = ResolveStmts(stmts, ResolverNew(interp.caches))
    /\ interp' = [interp EXCEPT !.caches = resolved'.caches]
    /\ seen' = seen \o WithLine(resolved'.trace, lineNo)
    /\ declared' = declared \o resolved'.decls
    /\ pc' = IF ProceedsToInterpret(resolved') THEN "interpret" ELSE "prompt"
    /\ idx' = 1
    /\ UNCHANGED <<src, lineNo, stmts, before, bytecode>>

\* interpret(): interpreter.interpret(stmt) for the next statement
InterpretNext ==
    /\ pc = "interpret"
    /\ idx <= Len(stmts)
    /\ interp' = Interpret(stmts[idx], interp)
    /\ pc' = IF interp'.panic THEN "aborted"
             ELSE IF interp'.hung THEN "hung"
             ELSE IF StopsAfterError(interp') THEN "prompt"
             ELSE "interpret"
    /\ idx' = idx + 1
    /\ UNCHANGED <<src, lineNo, stmts, resolved, seen, before, declared, bytecode>>

\* interpret(): the loop is over
InterpretDone ==
    /\ pc = "interpret"
    /\ idx > Len(stmts)
    /\ pc' = "prompt"
    /\ UNCHANGED <<src, lineNo, stmts, idx, interp, resolved, seen, before, declared, bytecode>>

\* run_file returns, or run_repl reads "q"
Quit ==
    /\ pc = "prompt"
    /\ lineNo = Len(src.lines)
    /\ pc' = "exit"
    /\ UNCHANGED <<src, lineNo, stmts, idx, interp, resolved, seen, before, declared, bytecode>>

Next == ParseLine \/ ResolveLine \/ InterpretNext \/ InterpretDone \/ Quit

Spec == Init /\ [][Next]_vars

(***************************************************************************)
(* The bytecode tests: each builds a chunk call by call, then runs the Vm. *)
(* The tree-walking interpreter takes no part.                             *)
(***************************************************************************)
InitVm ==
    /\ src = SrcShadow
    /\ pc = "exit"
    /\ lineNo = 0
    /\ stmts = <<>>
    /\ idx = 0
    /\ interp = InterpreterNew
    /\ resolved = ResolverNew(EmptyMap)
    /\ seen = <<>>
    /\ before = InterpreterNew
    /\ declared = <<>>
    /\ bytecode \in {TestOf(program) : program \in VmChunks}

\* chunk.store_const(value)
VmStoreConst ==
    /\ bytecode.todo # <<>> /\ Head(bytecode.todo).op = "store_const"
    /\ bytecode' = [bytecode EXCEPT !.vm.chunk = StoreConst(@, Head(bytecode.todo).x),
                                    !.todo = Tail(@)]
    /\ UNCHANGED treewalk

\* chunk.push_idx_u8(x)
VmPushIdxU8 ==
    /\ bytecode.todo # <<>> /\ Head(bytecode.todo).op = "push_idx_u8"
    /\ bytecode' = [bytecode EXCEPT
           !.vm.chunk = PushIdxU8(@, Head(bytecode.todo).x),
           !.emitted = Append(@, [wide |-> FALSE, idx |-> Head(bytecode.todo).x,
                                  offset |-> Len(bytecode.vm.chunk.bytes) + 1]),
           !.todo = Tail(@)]
    /\ UNCHANGED treewalk

\* chunk.push_idx_u16(x)
VmPushIdxU16 ==
    /\ bytecode.todo # <<>> /\ Head(bytecode.todo).op = "push_idx_u16"
    /\ bytecode' = [bytecode EXCEPT
           !.vm.chunk = PushIdxU16(@, Head(bytecode.todo).x),
           !.emitted = Append(@, [wide |-> TRUE, idx |-> Head(bytecode.todo).x,
                                  offset |-> Len(bytecode.vm.chunk.bytes) + 1]),
           !.todo = Tail(@)]
    /\ UNCHANGED treewalk

\* chunk.push_code(code)
VmPushCode ==
    /\ bytecode.todo # <<>> /\ Head(bytecode.todo).op = "push_code"
    /\ bytecode' = [bytecode EXCEPT !.vm.chunk = PushCode(@, Head(bytecode.todo).x),
                                    !.todo = Tail(@)]
    /\ UNCHANGED treewalk

\* vm.run()
VmRun ==
    /\ bytecode.todo = <<>> /\ bytecode.program # <<>>
    /\ bytecode.vm.result = "NotRun" /\ ~bytecode.vm.panic /\ ~bytecode.vm.undefined
    /\ bytecode' = [bytecode EXCEPT !.vm = Run(@)]
    /\ UNCHANGED treewalk

NextVm == VmStoreConst \/ VmPushIdxU8 \/ VmPushIdxU16 \/ VmPushCode \/ VmRun

SpecVm == InitVm /\ [][NextVm]_vars


(***************************************************************************)
(* The claims.  `interp.log` is the history of what the Evaluator did,     *)
(* `seen` of what the Resolvers visited, `before` the Interpreter when the *)
(* current run_string began.                                               *)
(***************************************************************************)
Events == 1..Len(interp.log)
Event(i) == interp.log[i]

\* The current run_string has been resolved
Resolved == lineNo >= 1 /\ pc # "parsed"

\* Nothing was executed since the current run_string began
Untouched ==
    /\ interp.out = before.out
    /\ interp.envs = before.envs
    /\ interp.insts = before.insts
    /\ interp.log = before.log

\* C1: every evaluation of a variable reference that has a distance d in the
\* distance map reaches, without aborting, the frame exactly d parent links up
\* from the active Environment, and that frame directly defines the name.
C1_DistanceReachesDefiningFrame ==
    \A i \in Events :
        (Event(i).t = "get_resolved" /\ Event(i).name # "@") =>
            /\ Event(i).bound
            /\ Event(i).frame = Event(i).chain[Event(i).d + 1]

\* C2: in a single-source run, each time the Evaluator reads a variable the
\* number of non-global frames on the chain of its active Environment equals
\* the number of Scopes the Resolver had on its stack when it resolved that read.
C2_ScopeDepthEqualsEnvDepth ==
    Len(src.lines) = 1 =>
        \A i \in Events : \A j \in 1..Len(seen) :
            (/\ Event(i).t = "lookup"
             /\ seen[j].t = "read"
             /\ seen[j].id = Event(i).id
             /\ seen[j].name = Event(i).name) => seen[j].depth = Event(i).depth

\* C3: between statements, every frame on the parent chain of the closure of
\* every Function value bound in a live frame is itself still alive.
C3_ClosureChainStaysAlive ==
    \A e \in 1..Len(interp.envs) : \A n \in DOMAIN interp.envs[e].map :
        (Live(interp, e) /\ interp.envs[e].map[n].k = "UserFn") =>
            \A x \in 1..Len(Chain(interp, interp.envs[e].map[n].closure)) :
                Live(interp, Chain(interp, interp.envs[e].map[n].closure)[x])

\* C4: after a `return` fires in a call, outside any while loop of that call, no
\* further statement of that call is executed, the call ends, and it ends with
\* exactly the returned value.
C4_ReturnEndsTheCall ==
    \A i \in Events :
        (Event(i).t = "return" /\ Event(i).inWhile = 0) =>
            /\ \A j \in (i + 1)..Len(interp.log) :
                  /\ Event(j).t = "exec" => Event(j).act # Event(i).act
                  /\ (Event(j).t = "callend" /\ Event(j).act = Event(i).act) =>
                        (Event(j).ok /\ Event(j).v = Event(i).v)
            /\ \E j \in (i + 1)..Len(interp.log) :
                  Event(j).t = "callend" /\ Event(j).act = Event(i).act

\* A call that returned from inside an if branch or a block has ended with the
\* returned value
C4_Witness ==
    \E h \in Events : \E i \in Events : \E j \in Events :
        /\ h < i /\ i < j
        /\ Event(h).t = "exec" /\ Event(h).kind \in {"If", "Block"}
        /\ Event(i).t = "return" /\ Event(i).inWhile = 0
        /\ Event(i).act = Event(h).act
        /\ Event(j).t = "callend" /\ Event(j).act = Event(i).act
        /\ Event(j).v = Event(i).v

\* C5: after a `return` fires inside the body of a while loop, no further
\* statement of that call is executed and the call ends with exactly the
\* returned value.
C5_ReturnStopsTheLoop ==
    \A i \in Events :
        (Event(i).t = "return" /\ Event(i).inWhile > 0) =>
            \A j \in (i + 1)..Len(interp.log) :
                /\ Event(j).t = "exec" => Event(j).act # Event(i).act
                /\ (Event(j).t = "callend" /\ Event(j).act = Event(i).act) =>
                      (Event(j).ok /\ Event(j).v = Event(i).v)

\* The Resolver reached, inside some Scope, a read of a name that is declared
\* and not yet defined in the innermost Scope
ReachedSelfInit(rs) ==
    \E i \in 1..Len(rs.trace) : rs.trace[i].t = "read" /\ rs.trace[i].inner = "uninit"

\* A top-level statement `var a = a;`
DeclaresFromItself(ss) ==
    \E k \in 1..Len(ss) :
        ss[k].k = "Var" /\ ss[k].init.k = "Variable" /\ ss[k].init.name = ss[k].name

ErrorOf(st) == ResolveStmts(<<st>>, ResolverNew(EmptyMap)).result

\* The errors one resolution pass reported
Reported(rs) == IF IsErr(rs) THEN {rs.result} ELSE {}

\* C7: one resolution pass reports the error of every top-level statement that
\* has one, not only the first.
C7_EveryErrorReported ==
    Resolved =>
        \A k \in 1..Len(stmts) :
            ErrorOf(stmts[k]) # OkRes => ErrorOf(stmts[k]) \in Reported(resolved)

\* C8: when the Resolver reports an error for a run_string, the Evaluator has
\* executed none of its statements: nothing printed, no frame or instance
\* created or changed, no statement started.
C8_NoEvaluationAfterResolverError ==
    (Resolved /\ IsErr(resolved)) => Untouched

\* A run_string whose first statement is a print and whose resolution failed on
\* a later statement is over
C8_Witness ==
    /\ pc = "prompt"
    /\ Resolved
    /\ IsErr(resolved)
    /\ Len(stmts) >= 2
    /\ stmts[1].k = "Print"
    /\ ErrorOf(stmts[1]) = OkRes

\* C9: no two variable-reference nodes the Resolvers of one Interpreter visited
\* carry the same identifier.
C9_VarUseIdsNeverReused ==
    \A i \in 1..Len(seen) : \A j \in 1..Len(seen) :
        (i # j /\ seen[i].t # "self" /\ seen[j].t # "self") => seen[i].id # seen[j].id

\* C10: called on a frame whose chain has at least d live ancestors,
\* get_resolved(name, d) looks name up in the frame exactly d links up, for
\* every d >= 0.
C10_GetResolvedWalksDistance ==
    \A i \in Events :
        (/\ Event(i).t = "get_resolved"
         /\ Event(i).d + 1 <= Len(Event(i).chain)
         /\ Event(i).alive) => Event(i).frame = Event(i).chain[Event(i).d + 1]

\* C11: every evaluation of the receiver expression in a method body, directly
\* or inside nested blocks, is resolved at distance 0 without aborting and
\* yields the Instance the method was bound to: the frame reached binds "@".
C11_ReceiverResolvesAtDistanceZero ==
    \A i \in Events :
        (Event(i).t = "get_resolved" /\ Event(i).name = "@") =>
            /\ Event(i).d = 0
            /\ Event(i).frame # -1
            /\ "@" \in DOMAIN interp.envs[Event(i).frame].map
            /\ interp.envs[Event(i).frame].map["@"].k = "Instance"

\* C12: every truthiness test (if, while, `!`, `and`, `or`) finds a value falsy
\* exactly when it is Nil or the boolean false; every other value is truthy.
C12_FalsyExactlyNilAndFalse ==
    \A i \in Events :
        Event(i).t = "truthy" =>
            (Event(i).truthy <=>
                ~(Event(i).v.k = "Nil" \/ (Event(i).v.k = "Bool" /\ ~Event(i).v.b)))

\* C13: `==` and `!=` never fail, whatever the kinds of their two operands, and
\* `==` on operands of different kinds yields false.
C13_EqualityIsTotal ==
    \A i \in Events :
        (Event(i).t = "binary" /\ Event(i).oper \in {"Equal", "NotEqual"}) =>
            /\ Event(i).result = OkRun
            /\ (Event(i).oper = "Equal" /\ Event(i).l.k # Event(i).r.k) =>
                  Event(i).v = Bool(FALSE)

\* A call of a user function or method whose argument count differs from the
\* callee's parameter count
Mismatched(i) == Event(i).t = "invoke" /\ Event(i).params # Event(i).args

\* C14: a call of a user function or method with a wrong number of arguments
\* yields WrongNumberOfArguments and nothing else happens in that run_string:
\* no argument is evaluated, no frame is created, no parameter bound, no
\* statement of the body or of the rest of the source starts.  The next thing
\* the Evaluator does, if anything, is the first statement of a later source.
C14_ArityMismatchBindsNothing ==
    \A i \in Events :
        Mismatched(i) =>
            /\ i < Len(interp.log) =>
                  /\ Event(i + 1).t = "exec"
                  /\ Event(i + 1).act = 0
                  /\ Event(i + 1).line > Event(i).line
            /\ i = Len(interp.log) =>
                  /\ Event(i).found = <<interp.envs, interp.insts, interp.out>>
                  /\ lineNo = Event(i).line =>
                        interp.result = RuntimeError("WrongNumberOfArguments", "")

\* Calls with too many and with too few arguments have failed, the last one
\* just now, one of them a call of a bound method
C14_Witness ==
    /\ pc = "prompt"
    /\ interp.result = RuntimeError("WrongNumberOfArguments", "")
    /\ Mismatched(Len(interp.log))
    /\ \E i \in Events : Mismatched(i) /\ Event(i).args > Event(i).params
    /\ \E i \in Events : Mismatched(i) /\ Event(i).args < Event(i).params
    /\ \E i \in Events : Mismatched(i) /\ "@" \in DOMAIN interp.envs[Event(i).closure].map

\* The history entries of the evaluation of the arguments of the call whose
\* frame is sc
ArgsOf(sc) == {k \in Events : Event(k).t = "arg" /\ Event(k).scope = sc}

\* C15: when the body of a call starts, every argument has been evaluated, one
\* per parameter, left to right, each in the caller's active Environment; from
\* the first argument on, the callee's frame was never the active Environment
\* and no variable was read from it; the callee's frame did not exist before
\* the call and its parent is the callee's closure.
C15_ArgumentsEvaluatedInCaller ==
    \A j \in Events :
        Event(j).t = "callbegin" =>
            /\ Event(j).parent = Event(j).closure
            /\ Event(j).scope > Event(j).frames
            /\ \A k \in ArgsOf(Event(j).scope) : k < j /\ Event(k).env = Event(j).caller
            /\ \A n \in 1..Event(j).nparams :
                  \E k \in ArgsOf(Event(j).scope) : Event(k).i = n
            /\ \A k1, k2 \in ArgsOf(Event(j).scope) :
                  (k1 < k2) <=> (Event(k1).i < Event(k2).i)
            /\ \A k \in ArgsOf(Event(j).scope) : \A x \in k..j :
                  /\ Event(x).t \in {"lookup", "assign", "get_resolved", "arg"} =>
                        Event(x).env # Event(j).scope
                  /\ Event(x).t = "get_resolved" => Event(x).frame # Event(j).scope

\* A call with two arguments, the second of which reads a variable, made from
\* inside a block, has started its body; its closure is not the caller's frame
C15_Witness ==
    \E j \in Events : \E x \in Events :
        /\ Event(j).t = "callbegin"
        /\ Event(j).nparams = 2
        /\ Event(j).caller # Event(j).closure
        /\ Event(x).t = "lookup"
        /\ x < j
        /\ \E k \in ArgsOf(Event(j).scope) : Event(k).i = 2 /\ k < x

\* C16: calling a Class makes an Instance that did not exist before, with an
\* empty field table; if the class has a method `init` it is bound to that
\* Instance and invoked with the call's arguments; and when the call is over
\* its value is that Instance, whatever `init` returned.
C16_ConstructorYieldsInstance ==
    \A i \in Events :
        /\ Event(i).t = "new" =>
              /\ Event(i).inst > Event(i).insts
              /\ Event(i).fields = EmptyMap
              /\ Event(i).init <=> "init" \in DOMAIN Event(i).class.methods
              /\ Event(i).init =>
                    /\ Event(i + 1).t = "bind"
                    /\ Event(i + 1).inst = Event(i).inst
                    /\ Event(i + 1).f = Event(i).class.methods["init"]
                    /\ Event(i + 2).t = "invoke"
                    /\ Event(i + 2).closure = Event(i + 1).frame
                    /\ Event(i + 2).args = Event(i).nargs
              /\ ~Event(i).init => Event(i + 1).t = "construct"
        /\ Event(i).t = "construct" =>
              /\ Event(i).v = InstanceObj(Event(i).inst)
              /\ \E n \in 1..(i - 1) : Event(n).t = "new" /\ Event(n).inst = Event(i).inst
              /\ Event(i).init =>
                    /\ Event(i - 1).t = "callend"
                    /\ Event(i - 1).ok
                    /\ Event(i - 1).v = CallValue(Event(i).ret)

\* Three constructor calls are over: one whose `init` returned a value, one
\* whose `init` returned nothing, one of a class without `init`
C16_Witness ==
    /\ \E i \in Events : Event(i).t = "construct" /\ Event(i).init /\ Event(i).ret # NoRet
    /\ \E i \in Events : Event(i).t = "construct" /\ Event(i).init /\ Event(i).ret = NoRet
    /\ \E i \in Events : Event(i).t = "construct" /\ ~Event(i).init

\* C17: a bind leaves the original Function as it was (the class still holds
\* it, same body, parameters and closure, and the closure frame is unchanged);
\* the bound Function has the same body and parameters and, as closure, a frame
\* that did not exist before, binds only the receiver and has the original
\* closure as parent; no two binds share a receiver frame.
C17_BindLeavesFunctionUnchanged ==
    \A i \in Events :
        Event(i).t = "bind" =>
            /\ Event(i).after = Event(i).before
            /\ \E n \in DOMAIN Event(i).methods : Event(i).methods[n] = Event(i).f
            /\ Event(i).bound.body = Event(i).f.body
            /\ Event(i).bound.params = Event(i).f.params
            /\ Event(i).frame > Event(i).frames
            /\ Event(i).frame # Event(i).f.closure
            /\ Event(i).made = [map |-> MapPut(EmptyMap, "@", InstanceObj(Event(i).inst)),
                                parent |-> Event(i).f.closure]
            /\ \A j \in Events :
                  (Event(j).t = "bind" /\ j # i) => Event(j).frame # Event(i).frame

\* One method has been bound to two Instances, and twice to one of them
C17_Witness ==
    \E i, j, k \in Events :
        /\ i < j /\ j < k
        /\ Event(i).t = "bind" /\ Event(j).t = "bind" /\ Event(k).t = "bind"
        /\ Event(i).f = Event(j).f /\ Event(i).inst # Event(j).inst
        /\ Event(k).f = Event(i).f /\ Event(k).inst = Event(i).inst

\* C18: a property get on an Instance yields the field's value when the
\* Instance has a field of that name, whether or not its class has a method of
\* that name; otherwise, when the class has such a method, that method bound to
\* this Instance; otherwise NoFieldWithName.
C18_GetChecksFieldsBeforeMethods ==
    \A i \in Events :
        Event(i).t = "get" =>
            /\ Event(i).name \in DOMAIN Event(i).fields =>
                  /\ Event(i).result = OkRun
                  /\ Event(i).v = Event(i).fields[Event(i).name]
            /\ (Event(i).name \notin DOMAIN Event(i).fields /\ Event(i).method # NoRet) =>
                  /\ Event(i).result = OkRun
                  /\ Event(i).v.k = "UserFn"
                  /\ Event(i).v.body = Event(i).method.v.body
                  /\ Event(i).v.params = Event(i).method.v.params
                  /\ Event(i).closure =
                        [map |-> MapPut(EmptyMap, "@", InstanceObj(Event(i).inst)),
                         parent |-> Event(i).method.v.closure]
            /\ (Event(i).name \notin DOMAIN Event(i).fields /\ Event(i).method = NoRet) =>
                  Event(i).result = RuntimeError("NoFieldWithName", Event(i).name)

\* A get found both a field and a method of its name, another only a method,
\* another neither
C18_Witness ==
    /\ \E i \in Events :
          /\ Event(i).t = "get"
          /\ Event(i).name \in DOMAIN Event(i).fields
          /\ Event(i).method # NoRet
    /\ \E i \in Events :
          /\ Event(i).t = "get"
          /\ Event(i).name \notin DOMAIN Event(i).fields
          /\ Event(i).method # NoRet
    /\ \E i \in Events :
          /\ Event(i).t = "get"
          /\ Event(i).name \notin DOMAIN Event(i).fields
          /\ Event(i).method = NoRet

\* The last set of field name of instance inst before history entry j (0: none)
LastSet(inst, name, j) ==
    LET S == {i \in 1..(j - 1) :
                 /\ Event(i).t = "set" /\ Event(i).result = OkRun
                 /\ Event(i).operand = InstanceObj(inst) /\ Event(i).name = name}
    IN  IF S = {} THEN 0 ELSE CHOOSE i \in S : \A k \in S : k <= i

\* C19: a property set on an Instance leaves the value in that Instance's field
\* table, whether or not the field had a value, and evaluates to Nil; every
\* later get of that field of that Instance, through whatever reference, yields
\* the value of the last set; on an operand that is not an Instance the set
\* yields NotForDotOperator.
C19_SetWritesThrough ==
    \A i \in Events :
        /\ (Event(i).t = "set" /\ Event(i).operand.k = "Instance") =>
              /\ Event(i).result = OkRun
              /\ Event(i).name \in DOMAIN Event(i).fields
              /\ Event(i).fields[Event(i).name] = Event(i).value
              /\ Event(i).v = Nil
        /\ (Event(i).t = "set" /\ Event(i).operand.k # "Instance") =>
              Event(i).result = RuntimeError("NotForDotOperator", "")
        /\ (Event(i).t = "get" /\ LastSet(Event(i).inst, Event(i).name, i) # 0) =>
              /\ Event(i).result = OkRun
              /\ Event(i).v = Event(LastSet(Event(i).inst, Event(i).name, i)).value

\* A field was set twice and then read; a set on a Number has failed
C19_Witness ==
    /\ \E i, j, k \in Events :
          /\ i < j /\ j < k
          /\ Event(i).t = "set" /\ Event(j).t = "set" /\ Event(k).t = "get"
          /\ Event(i).operand.k = "Instance" /\ Event(j).operand = Event(i).operand
          /\ Event(j).name = Event(i).name /\ Event(j).value # Event(i).value
          /\ Event(k).inst = Event(j).operand.id /\ Event(k).name = Event(j).name
    /\ \E i \in Events : Event(i).t = "set" /\ Event(i).operand.k = "Number"

\* The nearest frame on the parent chain, as linked, that binds the assigned
\* name when assignment i starts (0: none)
Nearest(i) ==
    LET ch == Event(i).chain
        B  == {x \in 1..Len(ch) : ch[x] \in Event(i).binds}
    IN  IF B = {} THEN 0 ELSE ch[CHOOSE x \in B : \A y \in B : x <= y]

\* C20: an assignment updates the binding of the name in the nearest frame of
\* the parent chain of the active Environment that binds it and changes no
\* other frame and no other binding; if no frame of the chain binds the name it
\* yields Undefined and changes no frame.
C20_AssignUpdatesNearestBinding ==
    \A i \in Events :
        Event(i).t = "assign" =>
            /\ Nearest(i) # 0 =>
                  /\ Event(i).result = OkRun
                  /\ Event(i).changed \subseteq {Nearest(i)}
                  /\ Event(i).has[Nearest(i)].map =
                        MapPut(Event(i).had[Nearest(i)].map, Event(i).name, Event(i).value)
            /\ Nearest(i) = 0 =>
                  /\ Event(i).result = RuntimeError("Undefined", Event(i).name)
                  /\ Event(i).changed = {}

\* C21: a declare inside a local scope yields DuplicateDeclaration exactly when
\* the innermost scope already holds the name, whether or not an enclosing
\* scope holds it; a declare at global scope (no scope on the stack) never fails.
C21_DuplicateOnlyInSameScope ==
    \A i \in 1..Len(declared) :
        /\ declared[i].depth = 0 => declared[i].result = OkRes
        /\ (declared[i].depth > 0 /\ declared[i].inner) =>
              declared[i].result = SemanticError("DuplicateDeclaration", declared[i].name)
        /\ (declared[i].depth > 0 /\ ~declared[i].inner) => declared[i].result = OkRes

\* Declares have failed on a name of the innermost scope (three times: a second
\* `var`, a repeated parameter, a local that repeats a parameter), one has
\* succeeded on a name held only by an enclosing scope, and one at global scope
\* on a name declared there before
C21_Witness ==
    /\ Cardinality({i \in 1..Len(declared) : declared[i].result # OkRes}) >= 3
    /\ \E i \in 1..Len(declared) :
          declared[i].depth > 0 /\ declared[i].outer /\ declared[i].result = OkRes
    /\ \E i, j \in 1..Len(declared) :
          /\ i < j
          /\ declared[i].depth = 0 /\ declared[j].depth = 0
          /\ declared[i].name = declared[j].name
          /\ declared[j].result = OkRes

\* Some `return` of the statements lies outside every function and method body
\* (read off the syntax tree: blocks, while bodies and if branches are searched,
\* function and class declarations are not)
RECURSIVE ReturnOutsideFn(_)
RECURSIVE StmtReturnsOutside(_)
RECURSIVE IfReturnsOutside(_)
ReturnOutsideFn(ss) == \E i \in 1..Len(ss) : StmtReturnsOutside(ss[i])

StmtReturnsOutside(s) ==
    CASE s.k = "Return" -> TRUE
      [] s.k \in {"Block", "While"} -> ReturnOutsideFn(s.stmts)
      [] s.k = "If" -> IfReturnsOutside(s.if_)
      [] OTHER -> FALSE

IfReturnsOutside(if_) ==
    \/ ReturnOutsideFn(if_.if_true)
    \/ if_.if_false.k = "ElseIf" /\ IfReturnsOutside(if_.if_false.if_)
    \/ if_.if_false.k = "JustElse" /\ ReturnOutsideFn(if_.if_false.stmts)

\* Some `return` lies inside a function or method body of the statements
RECURSIVE ReturnInsideFn(_)
ReturnInsideFn(ss) ==
    \E i \in 1..Len(ss) :
        \/ ss[i].k = "Fn" /\ (ReturnOutsideFn(ss[i].f.body) \/ ReturnInsideFn(ss[i].f.body))
        \/ ss[i].k = "Class" /\ \E m \in 1..Len(ss[i].methods) :
               ReturnOutsideFn(ss[i].methods[m].body) \/ ReturnInsideFn(ss[i].methods[m].body)
        \/ ss[i].k \in {"Block", "While"} /\ ReturnInsideFn(ss[i].stmts)

\* C22: the Resolver answers ReturnFromNonFunction only for statements that hold
\* a `return` outside every function and method body, and never accepts such
\* statements: a `return` that follows a function or class declaration at top
\* level is rejected, a `return` inside a body is not.
C22_ReturnOnlyInsideFunction ==
    Resolved =>
        /\ resolved.result = SemanticError("ReturnFromNonFunction", "") => ReturnOutsideFn(stmts)
        /\ ReturnOutsideFn(stmts) => IsErr(resolved)

\* A run whose first statement is a function or class declaration with a
\* `return` in a body and whose later statement holds a `return` outside every
\* body was rejected with ReturnFromNonFunction
C22_Witness ==
    /\ Resolved
    /\ Len(stmts) >= 2
    /\ stmts[1].k \in {"Fn", "Class"} /\ ReturnInsideFn(<<stmts[1]>>)
    /\ StmtReturnsOutside(stmts[2])
    /\ resolved.result = SemanticError("ReturnFromNonFunction", "")

\* The expression holds the receiver keyword
RECURSIVE ExprHasSelf(_)
ExprHasSelf(e) ==
    CASE e.k = "Self_" -> TRUE
      [] e.k \in {"Assign", "Unary"} -> ExprHasSelf(e.expr)
      [] e.k \in {"Binary", "Logic"} -> ExprHasSelf(e.left) \/ ExprHasSelf(e.right)
      [] e.k = "Call" ->
            ExprHasSelf(e.callee) \/ \E i \in 1..Len(e.args) : ExprHasSelf(e.args[i])
      [] e.k = "Get" -> ExprHasSelf(e.body)
      [] e.k = "Set" -> ExprHasSelf(e.body) \/ ExprHasSelf(e.value)
      [] OTHER -> FALSE

\* Some receiver keyword of the statements lies outside every method body (read
\* off the syntax tree: plain functions are searched, class declarations are not)
RECURSIVE SelfOutsideMethod(_)
RECURSIVE StmtSelfOutside(_)
RECURSIVE IfSelfOutside(_)
SelfOutsideMethod(ss) == \E i \in 1..Len(ss) : StmtSelfOutside(ss[i])

StmtSelfOutside(s) ==
    CASE s.k = "Var" -> ExprHasSelf(s.init)
      [] s.k \in {"Expr", "Print", "Return"} -> ExprHasSelf(s.expr)
      [] s.k = "Block" -> SelfOutsideMethod(s.stmts)
      [] s.k = "While" -> ExprHasSelf(s.condition) \/ SelfOutsideMethod(s.stmts)
      [] s.k = "If" -> IfSelfOutside(s.if_)
      [] s.k = "Fn" -> SelfOutsideMethod(s.f.body)
      [] OTHER -> FALSE

IfSelfOutside(if_) ==
    \/ ExprHasSelf(if_.condition)
    \/ SelfOutsideMethod(if_.if_true)
    \/ if_.if_false.k = "ElseIf" /\ IfSelfOutside(if_.if_false.if_)
    \/ if_.if_false.k = "JustElse" /\ SelfOutsideMethod(if_.if_false.stmts)

\* C23: the Resolver answers UseOfSelfOutsideMethod only for statements that
\* hold the receiver keyword outside every method body, and never accepts such
\* statements: a receiver in a plain function that follows a class declaration
\* is rejected, a receiver inside a method body is not.
C23_ReceiverOnlyInsideMethod ==
    Resolved =>
        /\ resolved.result = SemanticError("UseOfSelfOutsideMethod", "@") =>
              SelfOutsideMethod(stmts)
        /\ SelfOutsideMethod(stmts) => IsErr(resolved)

\* A run whose first statement is a class with the receiver in a method body,
\* and whose second is a plain function with the receiver in its body, was
\* rejected with UseOfSelfOutsideMethod
C23_Witness ==
    /\ Resolved
    /\ Len(stmts) >= 2
    /\ stmts[1].k = "Class"
    /\ \E m \in 1..Len(stmts[1].methods) : SelfOutsideMethod(stmts[1].methods[m].body)
    /\ stmts[2].k = "Fn" /\ StmtSelfOutside(stmts[2])
    /\ resolved.result = SemanticError("UseOfSelfOutsideMethod", "@")

\* The distances a Resolver over the current statements has written into a map
ResolvedAgain == ResolveStmts(stmts, ResolverNew(resolved.caches))

\* C24: a second Resolver over the same statements, writing into the map the
\* first one left, leaves the map as it was and returns the first one's Result.
C24_ResolveIsIdempotent ==
    Resolved => /\ ResolvedAgain.caches = resolved.caches
                /\ ResolvedAgain.result = resolved.result

\* The first resolution succeeded and wrote local distances, at least two of
\* them different, and the second has run over its map
C24_Witness ==
    /\ Resolved
    /\ resolved.result = OkRes
    /\ \E k1, k2 \in DOMAIN resolved.caches : resolved.caches[k1] # resolved.caches[k2]
    /\ ResolvedAgain.caches = resolved.caches

\* What Interpreter a held stays in Interpreter b: the lines printed, the names
\* the globals bind, the instances and the names of their fields
EffectsRemain(a, b) ==
    /\ Len(a.out) <= Len(b.out) /\ SubSeq(b.out, 1, Len(a.out)) = a.out
    /\ DOMAIN a.envs[GlobalsId].map \subseteq DOMAIN b.envs[GlobalsId].map
    /\ Len(a.insts) <= Len(b.insts)
    /\ \A i \in 1..Len(a.insts) : DOMAIN a.insts[i].fields \subseteq DOMAIN b.insts[i].fields

\* A top-level statement ends in a RuntimeError
RuntimeErrorStep ==
    /\ pc = "interpret" /\ idx' = idx + 1
    /\ interp'.result # OkRun /\ ~interp'.panic /\ ~interp'.hung

\* C25: a top-level statement that ends in a RuntimeError ends interpret() (no
\* later statement of that source is executed) and leaves what the Interpreter
\* held before it; after it run_file returns with the Interpreter untouched, and
\* run_repl reads the next line for the same Interpreter.
C25_ErrorAbortsOnlyTheStatement ==
    [][/\ RuntimeErrorStep => (pc' = "prompt" /\ EffectsRemain(interp, interp'))
       /\ (pc = "prompt" /\ interp.result # OkRun) =>
             IF src.repl /\ lineNo < Len(src.lines)
             THEN /\ pc' = "parsed" /\ lineNo' = lineNo + 1
                  /\ interp'.envs = interp.envs /\ interp'.insts = interp.insts
                  /\ interp'.out = interp.out /\ interp'.caches = interp.caches
             ELSE pc' = "exit" /\ interp' = interp]_vars

\* In the REPL the line before the current one ended in a RuntimeError, and the
\* current line has been executed to its end, printing two lines, the second
\* one a field that was written before the error
C25_Witness ==
    /\ src.repl /\ lineNo >= 2
    /\ before.result # OkRun /\ ~before.panic /\ ~before.hung
    /\ pc = "prompt" /\ interp.result = OkRun /\ idx > Len(stmts)
    /\ Len(interp.out) = Len(before.out) + 2
    /\ \E i \in 1..Len(interp.insts) : \E f \in DOMAIN before.insts[i].fields :
          interp.out[Len(interp.out)] = PrettyPrint(before.insts[i].fields[f])

\* C26: `var x = 1; { var x = 2; print x; } print x;` runs to its end and has
\* printed 2, then 1; the global x is still 1.
C26_ShadowingPrintsInnerThenOuter ==
    (src = SrcShadow /\ pc \in {"exit", "aborted", "hung"}) =>
        /\ pc = "exit"
        /\ interp.out = <<PrettyPrint(Number(2)), PrettyPrint(Number(1))>>
        /\ interp.envs[GlobalsId].map["x"] = Number(1)

\* The index the Vm reads back at the operand of an emitted constant instruction
ReadBack(e) ==
    IF e.wide THEN ReadU16(bytecode.vm.chunk, e.offset)
    ELSE ReadU8(bytecode.vm.chunk, e.offset)

\* C27: the index read back at the operand of every constant instruction is the
\* index push_idx_u8 / push_idx_u16 was given; a run whose indices all name
\* stored constants ends Ok, having loaded exactly those indices in order, and
\* the run of 32.2 14.2 - 9 / negate returns -2.
C27_ConstIndexRoundTrips ==
    /\ \A k \in 1..Len(bytecode.emitted) : ReadBack(bytecode.emitted[k]) = bytecode.emitted[k].idx
    /\ (/\ bytecode.vm.result # "NotRun"
        /\ \A k \in 1..Len(bytecode.emitted) :
              bytecode.emitted[k].idx < Len(bytecode.vm.chunk.consts)) =>
            /\ bytecode.vm.result = "Ok"
            /\ bytecode.vm.loaded = [k \in 1..Len(bytecode.emitted) |-> bytecode.emitted[k].idx]
    /\ (bytecode.program = VmBinaryOper /\ bytecode.vm.result # "NotRun") =>
            bytecode.vm.returned = <<0 - 20>>

\* The frame the Resolver resolved assignment i to: the frame at the cached
\* distance on the chain of the active Environment, the globals when the
\* assignment has no cache entry (0: the chain is shorter than the distance)
ResolvedFrame(i) ==
    IF Event(i).d = -1 THEN GlobalsId
    ELSE IF Event(i).d + 1 <= Len(Event(i).chain) THEN Event(i).chain[Event(i).d + 1]
    ELSE 0

\* C28: an assignment writes the frame the Resolver resolved it to, and no other.
C28_AssignWritesResolvedFrame ==
    \A i \in Events :
        (Event(i).t = "assign" /\ Event(i).result = OkRun) =>
            /\ Event(i).frame = ResolvedFrame(i)
            /\ Event(i).changed \subseteq {ResolvedFrame(i)}

\* C29: every interpret_stmts_with_scope (a block, a while body, an if branch, a
\* call) that returns, with Ok(None), with a returned value or with a
\* RuntimeError, leaves the Environment active that was active when it was
\* called; whenever Interpreter::interpret has returned, the active Environment
\* is the global one.
C29_ActiveEnvironmentRestored ==
    /\ \A i \in Events : Event(i).t = "leave" => Event(i).env = Event(i).prev
    /\ (~interp.panic /\ ~interp.hung) => interp.env = interp.globals

\* Scopes nested in another scope have been left on each path: with Ok(None),
\* with a returned value and with a RuntimeError; interpret has returned
C29_Witness ==
    /\ ~interp.panic /\ ~interp.hung /\ pc = "prompt" /\ lineNo >= 1
    /\ \E i \in Events : /\ Event(i).t = "leave" /\ Event(i).prev # GlobalsId
                         /\ Event(i).result = OkRun /\ Event(i).ret = NoRet
    /\ \E i \in Events : /\ Event(i).t = "leave" /\ Event(i).prev # GlobalsId
                         /\ Event(i).result = OkRun /\ Event(i).ret # NoRet
    /\ \E i \in Events : /\ Event(i).t = "leave" /\ Event(i).prev # GlobalsId
                         /\ Event(i).result # OkRun

\* C30: whenever `==` and `!=` have both been evaluated without error on the
\* same two operands, the result of `!=` is the negation of the result of `==`.
C30_NotEqualNegatesEqual ==
    \A i \in Events : \A j \in Events :
        (/\ Event(i).t = "binary" /\ Event(i).oper = "Equal"
         /\ Event(j).t = "binary" /\ Event(j).oper = "NotEqual"
         /\ Event(i).l = Event(j).l /\ Event(i).r = Event(j).r
         /\ Event(i).result = OkRun /\ Event(j).result = OkRun) =>
            Event(j).v = Bool(~Event(i).v.b)


====
